---- MODULE Spec2Model ----
(***************************************************************************)
(* State-machine model of the ESTA kernel's security core:                 *)
(*   - CapabilityManager  (engine/esta-kernel/src/security/capabilities.rs)*)
(*   - AuditLog           (engine/esta-kernel/src/security/audit.rs)       *)
(*   - Supervisor         (engine/esta-kernel/src/supervisor.rs)           *)
(* Each component owns its tables and is checked under its own             *)
(* specification (SpecCap, SpecAudit, SpecSup); every public method is one *)
(* action, because each method body runs under the component's write lock. *)
(***************************************************************************)
EXTENDS Integers, Sequences, FiniteSets, TLC

VARIABLES
    \* CapabilityManager
    capabilities,   \* HashMap<CapabilityId, Capability>
    tokens,         \* HashMap<CapabilityToken, CapabilityId>
    revocations,    \* HashSet<CapabilityId>
    next_id,        \* AtomicU64
    clock,          \* SystemTime::now() in Unix millis
    delegating,     \* delegate calls between their validation and their insert
    \* AuditLog
    entries,        \* VecDeque<AuditEntry>
    sequence,       \* u64
    last_hash,      \* String
    max_entries,    \* AuditLogConfig.max_entries
    tampered,       \* sequences of the entries altered in place, behind the API
    \* Supervisor
    children,       \* HashMap<String, ChildInfo>
    instant,        \* tokio Instant::now(), in milliseconds
    sleeping,       \* execute_restart calls suspended in sleep(delay)
    actions,        \* SupervisorAction per child, returned by report_crash
                    \* and not yet passed to execute_restart
    invoked,        \* the last call of restart_callback: its child and result
    \* Kernel
    registry,       \* ModuleRegistry.modules: HashMap<String, ModuleHandle>
    tasks,          \* the guest tasks tokio::spawn has started, in order
    require_signatures, \* ExecutionConfig.require_signatures
    signature_verifier, \* Option<SignatureVerifier>, by its public key
    launching,      \* launch_module calls between tokio::spawn and register
    shutting_down,  \* shutdown calls between their audit entry and the
                    \* registry lock
    \* tokio::sync::RwLock
    locks,          \* per lock: the guards held and the queue of waiters
    calls           \* per task: the call it is in and how far it has got

capVars   == <<capabilities, tokens, revocations, next_id, clock>>
auditVars == <<entries, sequence, last_hash, max_entries, tampered>>
supVars   == <<children, instant, sleeping, actions, invoked>>
kernelVars ==
    <<registry, tasks, require_signatures, signature_verifier, shutting_down,
      launching>>
lockVars  == <<locks, calls>>
vars      == <<capVars, auditVars, supVars, delegating, kernelVars, lockVars>>

\* Option<T>: None is the empty sequence, Some(x) the one-element sequence.
None == <<>>
Some(x) == <<x>>

(***************************************************************************)
(* Bounds of the model                                                     *)
(***************************************************************************)
MaxCaps == 2        \* capabilities ever allocated under SpecCap
MaxChainCaps == 3   \* capabilities ever allocated under SpecCapChain
MaxClock == 1       \* last value of the wall clock
MaxUses == 2        \* successful record_usage calls overall
MaxInFlight == 1    \* delegate calls suspended at once
MaxEntries == 2     \* largest AuditLogConfig.max_entries a log is built with
MaxAppends == 4     \* append calls overall
MaxTamperAppends == 3  \* append calls to a log that is tampered with
MaxTicks == 3       \* steps of the monotonic clock
MaxCrashes == 6     \* report_crash calls per child
MaxPairCrashes == 2  \* report_crash calls per child of the two-child supervisor
MaxLaunches == 2    \* guest tasks the kernel spawns
MaxKernelEvents == 3  \* log length past which launch_module and shutdown are not called
MaxWideCaps == 2    \* capabilities followed in the table under SpecCapWide
MaxWraps == 1       \* times the low word of next_id wraps
MaxEpochs == 1      \* times the clock passes 2^32 ms
MaxLockTasks == 2   \* tasks calling the audit log and the capability manager

(***************************************************************************)
(* CapabilityId, CapabilityToken                                           *)
(***************************************************************************)
\* x & 0xFFFF_FFFF, written over 16-bit halves.
Low32(x) == (x % 65536) + 65536 * ((x \div 65536) % 65536)

\* (timestamp << 32) | (counter & 0xFFFF_FFFF) in 64 bits: the pair of the
\* id's high and low 32-bit words.
CapabilityIdNew(counter, timestamp) == <<Low32(timestamp), Low32(counter)>>

\* The manager's secret, and a secret an outsider might guess.
Secret == "manager-secret"
OtherSecret == "guessed-secret"

\* One '_'-separated part of a token string.
TextPart(s) == [kind |-> "txt", hi |-> 0, lo |-> 0, txt |-> s]
\* The decimal rendering of an id.
NumPart(id) == [kind |-> "num", hi |-> id[1], lo |-> id[2], txt |-> ""]
\* hex(SHA-256(id_le_bytes || secret))[..16], as an uninterpreted hash.
MacPart(id, secret) == [kind |-> "mac", hi |-> id[1], lo |-> id[2], txt |-> secret]

\* format!("cap_{}_{}", id, &hash[..16]) as its '_'-separated parts.
CapabilityTokenNew(cap_id, secret) ==
    <<TextPart("cap"), NumPart(cap_id), MacPart(cap_id, secret)>>

\* CapabilityToken::capability_id: split on '_', need at least two parts, the
\* first "cap", the second a decimal u64. Later parts are not looked at.
capability_id(token) ==
    IF Len(token) >= 2 /\ token[1] = TextPart("cap") /\ token[2].kind = "num"
    THEN Some(<<token[2].hi, token[2].lo>>)
    ELSE None

(***************************************************************************)
(* Capability                                                              *)
(***************************************************************************)
CapabilityRight ==
    {"Read", "Write", "Delete", "Execute", "Create", "List", "Delegate",
     "Revoke", "AuditEmit", "PersistenceRead", "PersistenceWrite", "Log"}

has_right(cap, right) == right \in cap.rights

\* is_valid with the expiry test left out.
is_valid_ignoring_expiry(cap, now) ==
    IF cap.revoked THEN "Revoked"
    ELSE IF cap.validity.max_uses # None
            /\ cap.validity.use_count >= cap.validity.max_uses[1]
    THEN "UsageLimitExceeded"
    ELSE "Ok"

\* is_valid with the usage test `use_count > max_uses`.
is_valid_one_more_use(cap, now) ==
    IF cap.revoked THEN "Revoked"
    ELSE IF cap.validity.expires_at # None /\ now > cap.validity.expires_at[1]
    THEN "Expired"
    ELSE IF cap.validity.max_uses # None
            /\ cap.validity.use_count > cap.validity.max_uses[1]
    THEN "UsageLimitExceeded"
    ELSE "Ok"

\* is_valid with the usage limit tested before the expiry.
is_valid_usage_first(cap, now) ==
    IF cap.revoked THEN "Revoked"
    ELSE IF cap.validity.max_uses # None
            /\ cap.validity.use_count >= cap.validity.max_uses[1]
    THEN "UsageLimitExceeded"
    ELSE IF cap.validity.expires_at # None /\ now > cap.validity.expires_at[1]
    THEN "Expired"
    ELSE "Ok"

\* Capability::is_valid
is_valid(cap, now) ==
    IF cap.revoked THEN "Revoked"
    ELSE IF cap.validity.expires_at # None /\ now > cap.validity.expires_at[1]
    THEN "Expired"
    ELSE IF cap.validity.max_uses # None
            /\ cap.validity.use_count >= cap.validity.max_uses[1]
    THEN "UsageLimitExceeded"
    ELSE "Ok"

\* CapabilityValidity::default()
DefaultValidity == [expires_at |-> None, max_uses |-> None, use_count |-> 0]

\* The result of a manager call. value: the capability snapshot of validate;
\* token: the token minted by create/delegate; count: what revoke returns;
\* missing: the `required` list of InsufficientRights.
CapResult(kind) ==
    [kind |-> kind, value |-> None, token |-> None, count |-> 0, missing |-> {}]

\* CapabilityManager::validate, as a function of the manager's tables.
validate(caps, revs, now, token, required_rights) ==
    LET cap_id == capability_id(token) IN
    IF cap_id = None THEN CapResult("InvalidToken")
    ELSE IF cap_id[1] \in revs THEN CapResult("Revoked")
    ELSE IF cap_id[1] \notin DOMAIN caps THEN CapResult("NotFound")
    ELSE LET cap == caps[cap_id[1]]
             valid == is_valid(cap, now)
             missing == {r \in required_rights : ~has_right(cap, r)}
         IN  IF valid # "Ok" THEN CapResult(valid)
             ELSE IF missing # {}
             THEN [CapResult("InsufficientRights") EXCEPT !.missing = missing]
             ELSE [CapResult("Ok") EXCEPT !.value = Some(cap)]

(***************************************************************************)
(* Inputs of the capability manager                                        *)
(***************************************************************************)
Owners == {"owner1", "owner2"}
CreateOwners == {"owner1"}
DelegateOwners == {"owner2"}
ReadOnlyRights == {"Read", "List"}                               \* create_read_only
DelegableRights == {"Read", "Write", "Delegate"}
ExpiringValidity == [expires_at |-> Some(0), max_uses |-> None, use_count |-> 0]
LimitedValidity == [expires_at |-> None, max_uses |-> Some(2), use_count |-> 0]
\* A CapabilityValidity with expires_at Some(0) and max_uses Some(1).
SingleUseValidity == [expires_at |-> Some(0), max_uses |-> Some(1), use_count |-> 0]
\* <<rights, validity>> of the capabilities the kernel creates.
CreateInputs ==
    {<<DelegableRights, DefaultValidity>>, <<DelegableRights, ExpiringValidity>>,
     <<ReadOnlyRights, LimitedValidity>>}
ChainCreateInputs ==
    {<<ReadOnlyRights, DefaultValidity>>, <<DelegableRights, DefaultValidity>>}
DelegateRightSets == {{"Read"}, {"Read", "Delegate"}, {"Read", "Execute"}}
DelegateValidities == {DefaultValidity}
RequiredRightSets == {{"Read"}, {"Write"}}

\* Token strings a caller can present: the minted ones, and for every id in
\* the table the strings an outsider can write without the secret.
ForgedTokens ==
    UNION {{<<TextPart("cap"), NumPart(id)>>,
            <<TextPart("cap"), NumPart(id), TextPart("0000000000000000")>>}
           : id \in DOMAIN capabilities}
MalformedTokens == {<<TextPart("cap"), TextPart("x"), MacPart(<<0, 1>>, Secret)>>}
UnknownTokens == {<<TextPart("cap"), NumPart(<<0, 0>>), TextPart("0000000000000000")>>}
TokenInputs == DOMAIN tokens \cup ForgedTokens \cup MalformedTokens \cup UnknownTokens

InitCap ==
    /\ capabilities = <<>>
    /\ tokens = <<>>
    /\ revocations = {}
    /\ next_id = 1
    /\ clock = 0

(***************************************************************************)
(* CapabilityManager operations. A call that returns Err changes nothing;  *)
(* what a call returns is the value of its ...Result operator in the state *)
(* the call is made in.                                                    *)
(***************************************************************************)
\* The capability built by create_capability (parent None) and by delegate.
NewCapability(id, resource_type, resource_id, rights, owner, parent_id, validity) ==
    [id |-> id, resource_type |-> resource_type, resource_id |-> resource_id,
     rights |-> rights, owner |-> owner, parent_id |-> parent_id,
     validity |-> validity, revoked |-> FALSE, created_at |-> clock]

\* caps.insert(id, cap); tokens.insert(token, id)
Install(id, cap, token) ==
    /\ capabilities' = (id :> cap) @@ capabilities
    /\ tokens' = (token :> id) @@ tokens

\* CapabilityManager::create_capability
create_capability(resource_type, resource_id, rights, owner, validity) ==
    LET id == CapabilityIdNew(next_id, clock)
        token == CapabilityTokenNew(id, Secret)
    IN  /\ next_id' = next_id + 1
        /\ Install(id, NewCapability(id, resource_type, resource_id, rights,
                                     owner, None, validity), token)
        /\ UNCHANGED <<revocations, clock>>

\* What validate returns to a caller now.
ValidateResult(token, required_rights) ==
    validate(capabilities, revocations, clock, token, required_rights)

\* CapabilityManager::validate called by a client: it only reads.
validate_call(token, required_rights) ==
    /\ ValidateResult(token, required_rights).kind \in
          {"Ok", "InvalidToken", "Revoked", "NotFound", "Expired",
           "UsageLimitExceeded", "InsufficientRights"}
    /\ UNCHANGED capVars

\* What record_usage returns to a caller now.
RecordUsageResult(token) ==
    LET cap_id == capability_id(token) IN
    IF cap_id = None THEN CapResult("InvalidToken")
    ELSE IF cap_id[1] \notin DOMAIN capabilities THEN CapResult("NotFound")
    ELSE CapResult("Ok")

\* CapabilityManager::record_usage
record_usage(token) ==
    LET cap_id == capability_id(token) IN
    /\ IF RecordUsageResult(token).kind = "Ok"
       THEN capabilities' =
              [capabilities EXCEPT ![cap_id[1]].validity.use_count = @ + 1]
       ELSE UNCHANGED capabilities
    /\ UNCHANGED <<tokens, revocations, next_id, clock>>

\* DelegateCheck with the attenuation test left out.
DelegateCheckUnattenuated(token, rights) == ValidateResult(token, {"Delegate"})

\* delegate validating the parent with no required right.
DelegateCheckAnyParent(token, rights) ==
    LET parent == ValidateResult(token, {})
    IN  IF parent.kind # "Ok" THEN parent
        ELSE LET invalid_rights ==
                     {r \in rights : ~has_right(parent.value[1], r)}
             IN  IF invalid_rights # {}
                 THEN [CapResult("InsufficientRights") EXCEPT !.missing = invalid_rights]
                 ELSE parent

\* What delegate decides before it allocates: the parent must validate with
\* the Delegate right, then every requested right must be one the parent has.
\* Ok carries the parent's snapshot.
DelegateCheck(token, rights) ==
    LET parent == ValidateResult(token, {"Delegate"})
    IN  IF parent.kind # "Ok" THEN parent
        ELSE LET invalid_rights ==
                     {r \in rights : ~has_right(parent.value[1], r)}
             IN  IF invalid_rights # {}
                 THEN [CapResult("InsufficientRights") EXCEPT !.missing = invalid_rights]
                 ELSE parent

\* What delegate returns to a caller now.
DelegateResult(token, rights) ==
    LET checked == DelegateCheck(token, rights) IN
    IF checked.kind # "Ok" THEN checked
    ELSE [CapResult("Ok") EXCEPT
            !.token = Some(CapabilityTokenNew(CapabilityIdNew(next_id, clock), Secret))]

\* CapabilityManager::delegate
delegate(token, new_owner, rights, validity) ==
    LET checked == DelegateCheck(token, rights) IN
    IF checked.kind # "Ok"
    THEN UNCHANGED capVars
    ELSE LET parent_cap == checked.value[1]
             id == CapabilityIdNew(next_id, clock)
             new_token == CapabilityTokenNew(id, Secret)
         IN  /\ next_id' = next_id + 1
             /\ Install(id, NewCapability(id, parent_cap.resource_type,
                                          parent_cap.resource_id, rights, new_owner,
                                          Some(parent_cap.id), validity), new_token)
             /\ UNCHANGED <<revocations, clock>>

\* The sweep taking the children of every id already in the revocation set
\* as well.
ToRevokeThroughSet(cap_id) ==
    ({cap_id} \cup {id \in DOMAIN capabilities :
                      /\ capabilities[id].parent_id # None
                      /\ capabilities[id].parent_id[1] \in revocations \cup {cap_id}})
    \cap DOMAIN capabilities

\* The ids revoke marks: the target and every capability whose parent_id is
\* the target (one pass over the table), those of them that are in the table.
ToRevoke(cap_id) ==
    ({cap_id} \cup {id \in DOMAIN capabilities :
                      capabilities[id].parent_id = Some(cap_id)})
    \cap DOMAIN capabilities

\* What revoke returns to a caller now.
RevokeResult(token) ==
    LET cap_id == capability_id(token) IN
    IF cap_id = None THEN CapResult("InvalidToken")
    ELSE [CapResult("Ok") EXCEPT !.count = Cardinality(ToRevoke(cap_id[1]))]

\* revoke storing the ids of this call as the whole revocation set.
revoke_replacing_set(token) ==
    LET cap_id == capability_id(token) IN
    IF cap_id = None
    THEN UNCHANGED capVars
    ELSE /\ capabilities' = [id \in DOMAIN capabilities |->
                               IF id \in ToRevoke(cap_id[1])
                               THEN [capabilities[id] EXCEPT !.revoked = TRUE]
                               ELSE capabilities[id]]
         /\ revocations' = ToRevoke(cap_id[1])
         /\ UNCHANGED <<tokens, next_id, clock>>

\* CapabilityManager::revoke
revoke(token) ==
    LET cap_id == capability_id(token) IN
    IF cap_id = None
    THEN UNCHANGED capVars
    ELSE /\ capabilities' = [id \in DOMAIN capabilities |->
                               IF id \in ToRevoke(cap_id[1])
                               THEN [capabilities[id] EXCEPT !.revoked = TRUE]
                               ELSE capabilities[id]]
         /\ revocations' = revocations \cup ToRevoke(cap_id[1])
         /\ UNCHANGED <<tokens, next_id, clock>>

\* Wall-clock time passes.
TickClock ==
    /\ clock < MaxClock
    /\ clock' = clock + 1
    /\ UNCHANGED <<capabilities, tokens, revocations, next_id>>

RECURSIVE SumUses(_)
SumUses(ids) ==
    IF ids = {} THEN 0
    ELSE LET id == CHOOSE x \in ids : TRUE
         IN  capabilities[id].validity.use_count + SumUses(ids \ {id})

\* The use counts recorded so far, over the whole table.
TotalUses == SumUses(DOMAIN capabilities)

\* list_capabilities without the `!c.revoked` test.
list_capabilities_of_owner(owner) ==
    {capabilities[id] : id \in {i \in DOMAIN capabilities :
                                    capabilities[i].owner = owner}}

\* CapabilityManager::list_capabilities: the capabilities the filter keeps.
list_capabilities(owner) ==
    {capabilities[id] : id \in {i \in DOMAIN capabilities :
                                    /\ capabilities[i].owner = owner
                                    /\ ~capabilities[i].revoked}}

\* A step of the capability manager leaves the other components alone.
OnlyCap == UNCHANGED <<auditVars, supVars, delegating, kernelVars, lockVars>>

NextCap ==
    \/ \E input \in CreateInputs, owner \in CreateOwners :
         /\ next_id <= MaxCaps
         /\ create_capability("Module", "test-module", input[1], owner, input[2])
         /\ OnlyCap
    \/ \E token \in TokenInputs, required \in RequiredRightSets :
         validate_call(token, required) /\ OnlyCap
    \/ \E token \in TokenInputs :
         TotalUses < MaxUses /\ record_usage(token) /\ OnlyCap
    \/ \E token \in TokenInputs, owner \in DelegateOwners, rights \in DelegateRightSets,
          validity \in DelegateValidities :
         /\ next_id <= MaxCaps
         /\ delegate(token, owner, rights, validity)
         /\ OnlyCap
    \/ \E token \in TokenInputs : revoke(token) /\ OnlyCap
    \/ TickClock /\ OnlyCap

\* The same manager with room for a delegation chain of three, every
\* capability with the default validity.
NextCapChain ==
    \/ \E input \in ChainCreateInputs, owner \in CreateOwners :
         /\ next_id <= MaxChainCaps
         /\ create_capability("Module", "test-module", input[1], owner, input[2])
         /\ OnlyCap
    \/ \E token \in TokenInputs, required \in RequiredRightSets :
         validate_call(token, required) /\ OnlyCap
    \/ \E token \in TokenInputs, owner \in DelegateOwners, rights \in DelegateRightSets,
          validity \in DelegateValidities :
         /\ next_id <= MaxChainCaps
         /\ delegate(token, owner, rights, validity)
         /\ OnlyCap
    \/ \E token \in TokenInputs : revoke(token) /\ OnlyCap

\* <<rights, validity>> of capabilities that expire and have a usage limit.
UsageCreateInputs ==
    {<<ReadOnlyRights, SingleUseValidity>>, <<DelegableRights, LimitedValidity>>}

\* The manager with capabilities that can be expired, exhausted and revoked
\* at once; nothing is delegated.
NextCapUsage ==
    \/ \E input \in UsageCreateInputs, owner \in CreateOwners :
         /\ next_id <= MaxCaps
         /\ create_capability("Module", "test-module", input[1], owner, input[2])
         /\ OnlyCap
    \/ \E token \in TokenInputs, required \in RequiredRightSets :
         validate_call(token, required) /\ OnlyCap
    \/ \E token \in TokenInputs :
         TotalUses < MaxUses /\ record_usage(token) /\ OnlyCap
    \/ \E token \in TokenInputs : revoke(token) /\ OnlyCap
    \/ TickClock /\ OnlyCap

(***************************************************************************)
(* Capability ids at their full width.  A u64 is the pair of its 32-bit    *)
(* words <<high, low>>, and a word is the pair of its 16-bit halves.  The   *)
(* counter and the clock of this manager are such values, so that the      *)
(* counter can pass 2^32; CapabilityIdNew above is the same function on     *)
(* values below 2^31.                                                      *)
(***************************************************************************)
\* 2^16
Half == 65536

\* The u64 with the four 16-bit halves given from the highest down.
Wide(h3, h2, h1, h0) == <<<<h3, h2>>, <<h1, h0>>>>
OneWide == Wide(0, 0, 0, 1)

\* u64 wrapping_add, as fetch_add and the clock compute it.
AddWide(x, y) ==
    LET s0 == x[2][2] + y[2][2]
        s1 == x[2][1] + y[2][1] + (s0 \div Half)
        s2 == x[1][2] + y[1][2] + (s1 \div Half)
        s3 == x[1][1] + y[1][1] + (s2 \div Half)
    IN  Wide(s3 % Half, s2 % Half, s1 % Half, s0 % Half)

\* CapabilityId::new: (timestamp << 32) | (counter & 0xFFFF_FFFF).  The shift
\* moves the low word of the timestamp into the high word and drops its
\* high word; the mask keeps the low word of the counter.
CapabilityIdNewWide(counter, timestamp) == <<timestamp[2], counter[2]>>

\* The manager of CapabilityManager::new with a u64 counter and clock.
InitCapWide ==
    /\ capabilities = <<>>
    /\ tokens = <<>>
    /\ revocations = {}
    /\ next_id = OneWide
    /\ clock = Wide(0, 0, 0, 0)

\* CapabilityManager::create_capability at full width.
create_capability_wide(resource_type, resource_id, rights, owner, validity) ==
    LET id == CapabilityIdNewWide(next_id, clock)
        token == CapabilityTokenNew(id, Secret)
    IN  /\ next_id' = AddWide(next_id, OneWide)
        /\ Install(id, NewCapability(id, resource_type, resource_id, rights,
                                     owner, None, validity), token)
        /\ UNCHANGED <<revocations, clock>>

\* How many create_capability calls a client makes in a row without the
\* model following their capabilities: 2^16 - 1 and 2^32 - 1.
BatchSizes == {Wide(0, 0, 0, Half - 1), Wide(0, 0, Half - 1, Half - 1)}

\* A run of create_capability calls of which only the counter is followed:
\* their capabilities are left out of the table of the model.
create_capability_batch(n) ==
    /\ next_id' = AddWide(next_id, n)
    /\ UNCHANGED <<capabilities, tokens, revocations, clock>>

\* The steps of the wall clock: a millisecond, and 2^32 milliseconds (49.7
\* days).
ClockSteps == {OneWide, Wide(0, 1, 0, 0)}

\* Wall-clock time passes.
TickClockWide(d) ==
    /\ clock' = AddWide(clock, d)
    /\ UNCHANGED <<capabilities, tokens, revocations, next_id>>

\* next_id.fetch_add wraps the low word of the counter at most MaxWraps
\* times, the clock passes 2^32 ms at most MaxEpochs times, and
\* MaxWideCaps capabilities are followed in the table.
NextCapWide ==
    \/ \E input \in CreateInputs, owner \in CreateOwners :
         /\ Cardinality(DOMAIN capabilities) < MaxWideCaps
         /\ next_id[1][2] <= MaxWraps
         /\ create_capability_wide("Module", "test-module", input[1], owner,
                                   input[2])
         /\ OnlyCap
    \/ \E n \in BatchSizes :
         /\ AddWide(next_id, n)[1][1] = 0
         /\ AddWide(next_id, n)[1][2] <= MaxWraps
         /\ AddWide(next_id, n)[2][1] \in {0, Half - 1}
         /\ create_capability_batch(n)
         /\ OnlyCap
    \/ \E d \in ClockSteps :
         /\ AddWide(clock, d)[1][1] = 0
         /\ AddWide(clock, d)[1][2] <= MaxEpochs
         /\ AddWide(clock, d)[2][1] = 0
         /\ AddWide(clock, d)[2][2] <= MaxClock
         /\ TickClockWide(d)
         /\ OnlyCap
    \/ \E token \in DOMAIN tokens : revoke(token) /\ OnlyCap

(***************************************************************************)
(* delegate as the tasks of the runtime see it.  delegate holds no lock    *)
(* between the return of its validate call and its write lock on the       *)
(* table, so other calls can run in between; the action delegate above is  *)
(* the call with nothing in between.                                       *)
(***************************************************************************)
\* Parents carry Delegate, children never do: every delegation is one level.
RaceDelegateRightSets == {{"Read"}, {"Read", "Write"}}

\* delegate up to the end of its rights check: validate(token, [Delegate])
\* returns the parent's snapshot and the requested rights are checked
\* against it.  A refused call returns and changes nothing.
delegate_validate(token, new_owner, rights, validity) ==
    LET checked == DelegateCheck(token, rights) IN
    /\ Cardinality(delegating) < MaxInFlight
    /\ delegating' =
          IF checked.kind # "Ok" THEN delegating
          ELSE delegating \cup {[parent_cap |-> checked.value[1],
                                 new_owner |-> new_owner, rights |-> rights,
                                 validity |-> validity]}
    /\ UNCHANGED capVars

\* delegate from next_id.fetch_add on: the capability is built from the
\* snapshot taken earlier and inserted under the write locks.
delegate_insert(call) ==
    LET id == CapabilityIdNew(next_id, clock)
        new_token == CapabilityTokenNew(id, Secret)
    IN  /\ call \in delegating
        /\ delegating' = delegating \ {call}
        /\ next_id' = next_id + 1
        /\ Install(id, NewCapability(id, call.parent_cap.resource_type,
                                     call.parent_cap.resource_id, call.rights,
                                     call.new_owner, Some(call.parent_cap.id),
                                     call.validity), new_token)
        /\ UNCHANGED <<revocations, clock>>

\* A step of the capability manager while delegate calls are in flight.
OnlyCapRace == UNCHANGED <<auditVars, supVars, kernelVars, lockVars>>

NextCapRace ==
    \/ \E input \in CreateInputs, owner \in CreateOwners :
         /\ next_id <= MaxCaps
         /\ create_capability("Module", "test-module", input[1], owner, input[2])
         /\ OnlyCap
    \/ \E token \in DOMAIN tokens, owner \in DelegateOwners,
          rights \in RaceDelegateRightSets, validity \in DelegateValidities :
         /\ next_id + Cardinality(delegating) <= MaxCaps
         /\ delegate_validate(token, owner, rights, validity)
         /\ OnlyCapRace
    \/ \E call \in delegating : delegate_insert(call) /\ OnlyCapRace
    \/ \E token \in DOMAIN tokens : revoke(token) /\ OnlyCap
    \/ TickClock /\ OnlyCap

(***************************************************************************)
(* AuditLog                                                                *)
(***************************************************************************)
\* hex(SHA-256("ESTA-KERNEL-GENESIS"))
GenesisHash == <<"ESTA-KERNEL-GENESIS">>

\* compute_hash leaving the source out of the digest.
compute_hash_without_source(seq, timestamp, event, source, prev_hash) ==
    <<seq, timestamp, event, "", prev_hash>>

\* AuditEntry::compute_hash: SHA-256 over the five fields, as an
\* uninterpreted hash (distinct inputs give distinct digests).
compute_hash(seq, timestamp, event, source, prev_hash) ==
    <<seq, timestamp, event, source, prev_hash>>

\* AuditEntry::verify
verify(entry) ==
    compute_hash(entry.sequence, entry.timestamp, entry.event, entry.source,
                 entry.prev_hash) = entry.hash

\* Events and sources the components log.
AuditEvents ==
    {[type |-> "ModuleLoaded", module_name |-> "mod1", detail |-> "hash1"],
     [type |-> "Custom", module_name |-> "test", detail |-> "custom message"]}
AuditSources == {"kernel", "supervisor"}

\* AuditLogConfig::default().max_entries
DefaultMaxEntries == 10000

InitAudit ==
    /\ entries = <<>>
    /\ sequence = 0
    /\ last_hash = GenesisHash
    /\ max_entries \in (0..MaxEntries) \cup {DefaultMaxEntries}
    /\ tampered = {}

\* `*seq += 1; let sequence = *seq;` without the increment.
NextSequenceStuck == sequence

\* `*seq += 1; let sequence = *seq;`
NextSequence == sequence + 1

\* `*last_hash = hash;` left out.
StaleLastHash(hash) == last_hash

\* `*last_hash = hash;`
UpdatedLastHash(hash) == hash

\* The entry append builds.
AppendedEntry(event, source) ==
    [sequence |-> NextSequence, timestamp |-> clock, event |-> event,
     source |-> source, prev_hash |-> last_hash,
     hash |-> compute_hash(NextSequence, clock, event, source, last_hash)]

\* The trim with the test `entries.len() > max_entries`.
TrimmedLate(es, limit) ==
    IF Len(es) > limit /\ Len(es) > 0 THEN Tail(es) ELSE es

\* `if entries.len() >= max_entries { entries.pop_front(); }`
Trimmed(es, limit) ==
    IF Len(es) >= limit /\ Len(es) > 0 THEN Tail(es) ELSE es

\* AuditLog::append, under the three write locks it takes on entry.
append(event, source) ==
    LET entry == AppendedEntry(event, source) IN
    /\ sequence' = NextSequence
    /\ last_hash' = UpdatedLastHash(entry.hash)
    /\ entries' = Append(Trimmed(entries, max_entries), entry)
    /\ UNCHANGED <<clock, max_entries, tampered>>

RECURSIVE VerifyFrom(_, _, _)
\* The loop of verify_chain from entry i on, prev_hash being the hash the
\* entry must chain to.
VerifyFrom(es, i, prev_hash) ==
    IF i > Len(es)
    THEN [valid |-> TRUE, entries_checked |-> Len(es), first_invalid |-> None]
    ELSE IF ~verify(es[i]) \/ es[i].prev_hash # prev_hash
    THEN [valid |-> FALSE, entries_checked |-> es[i].sequence,
          first_invalid |-> Some(es[i].sequence)]
    ELSE VerifyFrom(es, i + 1, es[i].hash)

\* AuditLog::verify_chain: the walk starts from the genesis hash.
verify_chain(es) ==
    IF es = <<>>
    THEN [valid |-> TRUE, entries_checked |-> 0, first_invalid |-> None]
    ELSE VerifyFrom(es, 1, GenesisHash)

\* AuditLog::verify_chain called by a client: it only reads.
verify_chain_call ==
    /\ verify_chain(entries).valid \in BOOLEAN
    /\ UNCHANGED <<auditVars, clock>>

\* A step of the audit log leaves the other components' tables alone.
OnlyAudit ==
    UNCHANGED <<capabilities, tokens, revocations, next_id, supVars, delegating,
                kernelVars, lockVars>>

NextAudit ==
    \/ \E event \in AuditEvents, source \in AuditSources :
         sequence < MaxAppends /\ append(event, source) /\ OnlyAudit
    \/ verify_chain_call /\ OnlyAudit
    \/ TickClock /\ OnlyCap

\* A digest no append has produced.
ForgedHash == <<"forged">>

\* The values a field of an entry can be overwritten with.
TamperValues(entry, field) ==
    CASE field = "source" -> {"tampered"}
      [] field = "event" -> AuditEvents
      [] field = "timestamp" -> {entry.timestamp + 1}
      [] field = "prev_hash" -> {ForgedHash, entry.hash}
      [] field = "hash" -> {ForgedHash, entry.prev_hash}

\* Code holding the entries lock overwrites one field of one in-memory
\* entry (as test_tamper_detection does); each entry is altered at most once.
tamper(i, field, value) ==
    /\ i \in 1..Len(entries)
    /\ entries[i].sequence \notin tampered
    /\ value # entries[i][field]
    /\ entries' = [entries EXCEPT ![i][field] = value]
    /\ tampered' = tampered \cup {entries[i].sequence}
    /\ UNCHANGED <<sequence, last_hash, max_entries, clock>>

NextAuditTamper ==
    \/ \E event \in AuditEvents :
         sequence < MaxTamperAppends /\ append(event, "kernel") /\ OnlyAudit
    \/ \E i \in 1..Len(entries),
          field \in {"source", "event", "timestamp", "prev_hash", "hash"} :
         \E value \in TamperValues(entries[i], field) :
             tamper(i, field, value) /\ OnlyAudit
    \/ verify_chain_call /\ OnlyAudit

(***************************************************************************)
(* Supervisor                                                              *)
(***************************************************************************)
\* A map with no key, and a map without one of its keys.
EmptyMap == [k \in {} |-> k]
Remove(map, key) == [k \in DOMAIN map \ {key} |-> map[k]]

\* EscalationLevel, by discriminant.
Level1RestartWithState == 1
Level4RestartSupervisor == 4
Level5SystemRestart == 5

\* EscalationLevel::next
next(level) == IF level = Level5SystemRestart THEN Level5SystemRestart ELSE level + 1

\* ChildState
Starting == [tag |-> "Starting", error |-> "", attempt |-> 0, reason |-> <<>>]
Running == [tag |-> "Running", error |-> "", attempt |-> 0, reason |-> <<>>]
Crashed(error) == [tag |-> "Crashed", error |-> error, attempt |-> 0, reason |-> <<>>]
Restarting(attempt) == [tag |-> "Restarting", error |-> "", attempt |-> attempt, reason |-> <<>>]
Stopped(reason) == [tag |-> "Stopped", error |-> "", attempt |-> 0, reason |-> reason]
Terminated == [tag |-> "Terminated", error |-> "", attempt |-> 0, reason |-> <<>>]

\* SupervisorAction
RestartAction(delay, manifest_path, escalation) ==
    [kind |-> "Restart", delay |-> delay, manifest_path |-> manifest_path,
     escalation |-> escalation]
StopAction == [kind |-> "Stop", delay |-> 0, manifest_path |-> "", escalation |-> 0]
EscalateAction(level) ==
    [kind |-> "Escalate", delay |-> 0, manifest_path |-> "", escalation |-> level]

\* The children the clients register: a one-second intensity window and a
\* backoff of 100 ms doubling up to 300 ms.
ChildIds == {"child1"}
WindowSecs == 1
BaseDelayMs == 100
MaxDelayMs == 300
BackoffFactor == 2
ChildSpecOf(id, restart, max_restarts) ==
    [id |-> id, manifest_path |-> "manifest.json", restart |-> restart,
     max_restarts |-> max_restarts, restart_intensity_window |-> WindowSecs,
     base_restart_delay_ms |-> BaseDelayMs, max_restart_delay_ms |-> MaxDelayMs,
     backoff_factor |-> BackoffFactor]
ChildSpecs ==
    {ChildSpecOf(id, "Permanent", m) : id \in ChildIds, m \in {0, 1, 2}}
    \cup {ChildSpecOf(id, "Transient", 1) : id \in ChildIds}
    \cup {ChildSpecOf(id, "Temporary", 1) : id \in ChildIds}

\* The error strings a crash is reported with.
Errors == {"error", "normal", "shutdown"}

\* The monotonic clock advances in half-second steps.
TickMs == 500

\* ChildInfo::new
ChildInfoNew(spec) ==
    [spec |-> spec, state |-> Starting, restart_count |-> 0,
     restart_window_start |-> None, last_crash |-> None,
     escalation_level |-> Level1RestartWithState, total_crashes |-> 0]

RECURSIVE powf(_, _)
\* f64::powf for a whole factor and a whole exponent.
powf(factor, attempt) == IF attempt = 0 THEN 1 ELSE factor * powf(factor, attempt - 1)

\* ChildInfo::calculate_restart_delay, in milliseconds.
calculate_restart_delay(child) ==
    LET delay_ms == child.spec.base_restart_delay_ms
                        * powf(child.spec.backoff_factor, child.restart_count)
    IN  IF delay_ms < child.spec.max_restart_delay_ms
        THEN delay_ms ELSE child.spec.max_restart_delay_ms

\* Duration::from_secs(restart_intensity_window), in milliseconds.
window_duration(child) == child.spec.restart_intensity_window * 1000

\* `restart_count >= max_restarts` taken as `>`.
restart_limit_exceeded_strict(child, now) ==
    IF child.restart_window_start # None
    THEN IF now - child.restart_window_start[1] > window_duration(child)
         THEN FALSE
         ELSE child.restart_count > child.spec.max_restarts
    ELSE FALSE

\* ChildInfo::restart_limit_exceeded
restart_limit_exceeded(child, now) ==
    IF child.restart_window_start # None
    THEN IF now - child.restart_window_start[1] > window_duration(child)
         THEN FALSE
         ELSE child.restart_count >= child.spec.max_restarts
    ELSE FALSE

\* The reset of an expired window without the reset of restart_count.
reset_window_keeping_count(child, now) ==
    IF /\ child.restart_window_start # None
       /\ now - child.restart_window_start[1] > window_duration(child)
    THEN [child EXCEPT !.restart_window_start = Some(now),
                       !.escalation_level = Level1RestartWithState]
    ELSE child

\* The reset of an expired window without the reset of the level.
reset_window_keeping_level(child, now) ==
    IF /\ child.restart_window_start # None
       /\ now - child.restart_window_start[1] > window_duration(child)
    THEN [child EXCEPT !.restart_count = 0, !.restart_window_start = Some(now)]
    ELSE child

\* ChildInfo::reset_window_if_expired
reset_window_if_expired(child, now) ==
    IF /\ child.restart_window_start # None
       /\ now - child.restart_window_start[1] > window_duration(child)
    THEN [child EXCEPT !.restart_count = 0,
                       !.restart_window_start = Some(now),
                       !.escalation_level = Level1RestartWithState]
    ELSE child

InitSup ==
    /\ children = EmptyMap
    /\ instant = 0
    /\ sleeping = EmptyMap
    /\ actions = EmptyMap
    /\ invoked = None

\* Supervisor::register_child
register_child(spec) ==
    /\ spec.id \notin DOMAIN children
    /\ children' = [k \in DOMAIN children \cup {spec.id} |->
                      IF k = spec.id THEN ChildInfoNew(spec) ELSE children[k]]
    /\ UNCHANGED <<instant, sleeping, actions, invoked>>

\* Supervisor::unregister_child
unregister_child(id) ==
    /\ id \in DOMAIN children
    /\ children' = Remove(children, id)
    /\ UNCHANGED <<instant, sleeping, actions, invoked>>

\* Supervisor::report_started: whatever state the child is in.
report_started(id) ==
    /\ id \in DOMAIN children
    /\ children' = [children EXCEPT ![id].state = Running]
    /\ UNCHANGED <<instant, sleeping, actions, invoked>>

\* The tail of report_crash: count the restart, compute the delay, go to
\* Restarting.
CountRestart(child) ==
    LET counted == [child EXCEPT !.restart_count = @ + 1] IN
    [child |-> [counted EXCEPT !.state = Restarting(counted.restart_count)],
     action |-> RestartAction(calculate_restart_delay(counted),
                              counted.spec.manifest_path,
                              counted.escalation_level)]

\* No strategy stops a crashed child without a restart.
NeverRestartedNone(spec) == FALSE

\* `RestartStrategy::Temporary =>`: the child is stopped, whatever the error.
NeverRestarted(spec) == spec.restart = "Temporary"

\* The Transient arm with `error == "normal"` alone.
NormalExitOnlyNormal(spec, error) ==
    spec.restart = "Transient" /\ error = "normal"

\* `RestartStrategy::Transient =>` with `error == "normal" || error ==
\* "shutdown"`: the child terminated normally.
NormalExit(spec, error) ==
    spec.restart = "Transient" /\ error \in {"normal", "shutdown"}

\* The body of report_crash on the child it found: the child it leaves and
\* the action it returns.
ReportCrashChild(child, now, error) ==
    LET crashed == [child EXCEPT !.state = Crashed(error),
                                 !.last_crash = Some(now),
                                 !.total_crashes = @ + 1]
        reset == reset_window_if_expired(crashed, now)
        windowed == IF reset.restart_window_start = None
                    THEN [reset EXCEPT !.restart_window_start = Some(now)]
                    ELSE reset
        escalated == [windowed EXCEPT !.escalation_level = next(@)]
    IN  IF NeverRestarted(crashed.spec)
        THEN [child |-> [crashed EXCEPT
                  !.state = Stopped(<<"Temporary strategy - no restart">>)],
              action |-> StopAction]
        ELSE IF NormalExit(crashed.spec, error)
        THEN [child |-> [crashed EXCEPT !.state = Terminated],
              action |-> StopAction]
        ELSE IF restart_limit_exceeded(windowed, now)
        THEN IF escalated.escalation_level >= Level4RestartSupervisor
             THEN [child |-> [escalated EXCEPT !.state =
                       Stopped(<<"Restart limit exceeded, escalated to",
                                 escalated.escalation_level>>)],
                   action |-> EscalateAction(escalated.escalation_level)]
             ELSE CountRestart([escalated EXCEPT !.restart_count = 0])
        ELSE CountRestart(windowed)

\* Supervisor::report_crash; the caller keeps the action it returns.
report_crash(id, error) ==
    /\ id \in DOMAIN children
    /\ LET r == ReportCrashChild(children[id], instant, error) IN
       /\ children' = [children EXCEPT ![id] = r.child]
       /\ actions' = [k \in DOMAIN actions \cup {id} |->
                        IF k = id THEN r.action ELSE actions[k]]
    /\ UNCHANGED <<instant, sleeping, invoked>>

\* Supervisor::execute_restart up to its first await: a Restart action goes
\* to sleep, Stop and Escalate return at once.
execute_restart_begin(id) ==
    /\ id \in DOMAIN actions
    /\ id \notin DOMAIN sleeping
    /\ actions' = Remove(actions, id)
    /\ sleeping' = IF actions[id].kind = "Restart"
                   THEN [k \in DOMAIN sleeping \cup {id} |->
                           IF k = id
                           THEN [action |-> actions[id], since |-> instant]
                           ELSE sleeping[k]]
                   ELSE sleeping
    /\ UNCHANGED <<children, instant, invoked>>

\* One call `(self.restart_callback)(id, ..)` and whether it returned Ok.
Invocation(id, callback_ok) == Some([id |-> id, ok |-> callback_ok])

\* execute_restart after the sleep with the `?` on the callback's result
\* dropped: the child is marked Starting whatever the callback returned.
execute_restart_wake_unchecked(id, callback_ok) ==
    /\ id \in DOMAIN sleeping
    /\ instant - sleeping[id].since >= sleeping[id].action.delay
    /\ sleeping' = Remove(sleeping, id)
    /\ invoked' = Invocation(id, callback_ok)
    /\ children' = IF id \in DOMAIN children
                   THEN [children EXCEPT ![id].state = Starting]
                   ELSE children
    /\ UNCHANGED <<instant, actions>>

\* Supervisor::execute_restart after the sleep: the callback runs, and if
\* it succeeds a child still registered under the id is set to Starting.
execute_restart_wake(id, callback_ok) ==
    /\ id \in DOMAIN sleeping
    /\ instant - sleeping[id].since >= sleeping[id].action.delay
    /\ sleeping' = Remove(sleeping, id)
    /\ invoked' = Invocation(id, callback_ok)
    /\ children' = IF callback_ok /\ id \in DOMAIN children
                   THEN [children EXCEPT ![id].state = Starting]
                   ELSE children
    /\ UNCHANGED <<instant, actions>>

\* shutdown_all's loop body passing over the children that are Stopped.
ShutDownUnlessStopped(child) ==
    IF child.state.tag = "Stopped" THEN child
    ELSE [child EXCEPT !.state = Terminated]

\* The body of shutdown_all's loop: `child.state = ChildState::Terminated`.
ShutDown(child) == [child EXCEPT !.state = Terminated]

\* Supervisor::shutdown_all
shutdown_all ==
    /\ children' = [k \in DOMAIN children |-> ShutDown(children[k])]
    /\ UNCHANGED <<instant, sleeping, actions, invoked>>

\* format!("{:?}", c.state): the variant's name and its field.
DebugFormat(state) ==
    CASE state.tag = "Crashed" -> <<"Crashed", state.error>>
      [] state.tag = "Restarting" -> <<"Restarting", state.attempt>>
      [] state.tag = "Stopped" -> <<"Stopped", state.reason>>
      [] OTHER -> <<state.tag>>

\* ChildStatus of a child
ChildStatus(c) ==
    [id |-> c.spec.id, state |-> DebugFormat(c.state),
     restart_count |-> c.restart_count, total_crashes |-> c.total_crashes,
     escalation_level |-> c.escalation_level]

\* Supervisor::get_status: the statuses of the registered children.
get_status == {ChildStatus(children[k]) : k \in DOMAIN children}

\* Instant::now() moves on.
TickInstant ==
    /\ instant < MaxTicks * TickMs
    /\ instant' = instant + TickMs
    /\ UNCHANGED <<children, sleeping, actions, invoked>>

\* A step of the supervisor leaves the other components' tables alone.
OnlySup == UNCHANGED <<capVars, auditVars, delegating, kernelVars, lockVars>>

NextSup ==
    \/ \E spec \in ChildSpecs : register_child(spec) /\ OnlySup
    \/ \E id \in ChildIds : unregister_child(id) /\ OnlySup
    \/ \E id \in ChildIds : report_started(id) /\ OnlySup
    \/ \E id \in ChildIds, error \in Errors :
         /\ id \in DOMAIN children
         /\ children[id].total_crashes < MaxCrashes
         /\ report_crash(id, error)
         /\ OnlySup
    \/ \E id \in ChildIds : execute_restart_begin(id) /\ OnlySup
    \/ \E id \in ChildIds, callback_ok \in BOOLEAN :
         execute_restart_wake(id, callback_ok) /\ OnlySup
    \/ shutdown_all /\ OnlySup
    \/ TickInstant /\ OnlySup

\* A supervisor with two children: a Permanent one and one that is
\* Temporary or Transient.
PairIds == {"child1", "child2"}
PairSpecs ==
    {ChildSpecOf("child1", "Permanent", 1), ChildSpecOf("child2", "Temporary", 1),
     ChildSpecOf("child2", "Transient", 1)}

NextSupPair ==
    \/ \E spec \in PairSpecs : register_child(spec) /\ OnlySup
    \/ \E id \in PairIds : report_started(id) /\ OnlySup
    \/ \E id \in PairIds, error \in Errors :
         /\ id \in DOMAIN children
         /\ children[id].total_crashes < MaxPairCrashes
         /\ report_crash(id, error)
         /\ OnlySup
    \/ shutdown_all /\ OnlySup

(***************************************************************************)
(* Kernel: module loading, the module registry and the guest tasks         *)
(***************************************************************************)
\* Ed25519 public keys: the one configured on the kernel and another one.
TrustedKey == "trusted-key"
OtherKey == "other-key"

\* The payload files: a module with _start and no import, a module with
\* _start that imports env.host_log, a module without _start, and bytes
\* that are not WebAssembly.
ModuleBytes == {"wasm_ok", "wasm_log", "wasm_lib", "not_wasm"}

\* Whether Module::new accepts the bytes.
Compiles(bytes) == bytes # "not_wasm"

\* The host functions the module imports from "env".
Imports(bytes) == IF bytes = "wasm_log" THEN {"host_log"} ELSE {}

\* Whether the instance exports a `_start` of type () -> ().
HasStart(bytes) == bytes \in {"wasm_ok", "wasm_log"}

\* hex::encode(Sha256(bytes)): one digest per payload.
Sha256Hex(bytes) ==
    CASE bytes = "wasm_ok" -> "sha256-of-wasm_ok"
      [] bytes = "wasm_log" -> "sha256-of-wasm_log"
      [] bytes = "wasm_lib" -> "sha256-of-wasm_lib"
      [] bytes = "not_wasm" -> "sha256-of-not_wasm"

\* The message a module signature covers: checksum || module_bytes.
SignedData(bytes, checksum) == <<checksum, bytes>>

\* A hex signature string: the 64 bytes an Ed25519 key produced over the
\* data, the empty string, or text that is not hexadecimal.
Signature(key, data) == [format |-> "hex64", key |-> key, data |-> data]
EmptySignature == [format |-> "empty", key |-> "", data |-> <<>>]
NotHexSignature == [format |-> "nothex", key |-> "", data |-> <<>>]

\* ModuleSigner::sign_module
sign_module(key, bytes, checksum) == Signature(key, SignedData(bytes, checksum))

\* SignatureVerifier::verify: Ok(()) as TRUE.
verify_signature_over(public_key, data, signature) ==
    /\ signature.format = "hex64"
    /\ signature.key = public_key
    /\ signature.data = data

\* SignatureVerifier::verify_module: Ok(()) as TRUE.
verify_module(public_key, bytes, checksum, signature) ==
    /\ Sha256Hex(bytes) = checksum
    /\ verify_signature_over(public_key, SignedData(bytes, checksum), signature)

\* Kernel::verify_checksum: Ok(()) as TRUE.
verify_checksum(bytes, expected_checksum) == Sha256Hex(bytes) = expected_checksum

\* Kernel::verify_signature with the development-mode arm taken always.
verify_signature_dev_mode(bytes, manifest) == TRUE

\* Kernel::verify_signature: Ok(()) as TRUE.  In development mode a
\* signature that fails to verify is only warned about.
verify_signature(bytes, manifest) ==
    IF require_signatures
    THEN /\ manifest.signature # None
         /\ signature_verifier # None
         /\ verify_module(signature_verifier[1], bytes, manifest.checksum,
                          manifest.signature[1])
    ELSE TRUE

\* kernel::Capability::from_str
from_str(s) ==
    CASE s = "log" -> Some("Log")
      [] s = "audit_emit" -> Some("AuditEmit")
      [] s = "persistence_read" -> Some("PersistenceRead")
      [] s = "persistence_write" -> Some("PersistenceWrite")
      [] OTHER -> None

RECURSIVE parse_names(_)
\* Kernel::parse_capabilities on the descriptor's list:
\* iter().filter_map(from_str).collect()
parse_names(names) ==
    IF names = <<>> THEN <<>>
    ELSE from_str(Head(names)) \o parse_names(Tail(names))

\* Kernel::parse_capabilities
parse_capabilities(manifest) == parse_names(manifest.capabilities)

\* `capabilities.contains(&c)`
Contains(granted, c) == \E i \in 1..Len(granted) : granted[i] = c

\* Kernel::register_host_functions with a function linked for every grant.
register_every_grant(granted) ==
    {f \in {"host_log", "host_audit_emit", "host_persistence_read",
            "host_persistence_write"} :
        \/ f = "host_log" /\ Contains(granted, "Log")
        \/ f = "host_audit_emit" /\ Contains(granted, "AuditEmit")
        \/ f = "host_persistence_read" /\ Contains(granted, "PersistenceRead")
        \/ f = "host_persistence_write" /\ Contains(granted, "PersistenceWrite")}

\* Kernel::register_host_functions: the "env" functions in the linker.
register_host_functions(granted) ==
    (IF Contains(granted, "Log") THEN {"host_log"} ELSE {})
    \cup (IF Contains(granted, "AuditEmit") THEN {"host_audit_emit"} ELSE {})

\* ModuleManifest, as the build tools write it for a payload: its digest
\* and the trusted key's signature over it.
ModuleManifest(name, bytes, requested) ==
    [name |-> name, path |-> "module.wasm", checksum |-> Sha256Hex(bytes),
     capabilities |-> requested,
     signature |-> Some(sign_module(TrustedKey, bytes, Sha256Hex(bytes)))]

\* A launch_module argument, by what the file system holds: the descriptor
\* file ("missing", "garbage" or a descriptor) and the payload at its path
\* (None when it cannot be read).
LaunchInput(name, bytes, requested) ==
    [file |-> "manifest", manifest |-> ModuleManifest(name, bytes, requested),
     payload |-> Some(bytes)]

\* Well-formed, signed descriptors: two for the same module name, a
\* library, a module whose import is not granted, and a broken payload.
SignedLaunches ==
    {LaunchInput("mod_a", "wasm_ok", <<"log", "audit_emit", "unknown">>),
     LaunchInput("mod_a", "wasm_log", <<"log", "log">>),
     LaunchInput("mod_b", "wasm_lib",
                 <<"persistence_read", "persistence_write", "Log">>),
     LaunchInput("mod_b", "wasm_log", <<"audit_emit">>),
     LaunchInput("mod_b", "not_wasm", <<>>)}

\* The signatures a descriptor can carry instead of the right one.
OtherSignatures(l) ==
    {None, Some(EmptySignature), Some(NotHexSignature),
     Some(sign_module(OtherKey, l.payload[1], l.manifest.checksum)),
     Some(sign_module(TrustedKey, "wasm_ok", l.manifest.checksum)),
     Some(sign_module(TrustedKey, l.payload[1], "invalid"))}
        \ {l.manifest.signature}

\* The descriptors above, and each of them with one thing wrong: the
\* payload unreadable, the payload replaced, the digest wrong, the
\* signature missing or wrong; and a missing and an unparsable descriptor.
LaunchInputs ==
    SignedLaunches
    \cup {[l EXCEPT !.payload = None] : l \in SignedLaunches}
    \cup {[l EXCEPT !.payload = Some("wasm_lib")] : l \in SignedLaunches}
    \cup {[l EXCEPT !.manifest.checksum = "invalid"] : l \in SignedLaunches}
    \cup UNION {{[l EXCEPT !.manifest.signature = sig] : sig \in OtherSignatures(l)} :
                    l \in SignedLaunches}
    \cup {[file |-> f, manifest |-> ModuleManifest("mod_a", "wasm_ok", <<>>),
           payload |-> None] : f \in {"missing", "garbage"}}

\* The outcome of launch_module on an input: "Ok" or the step that failed,
\* in the order of the `?` operators of the function.
LaunchResult(input) ==
    LET manifest == input.manifest
        granted == parse_capabilities(manifest)
    IN  IF input.file = "missing" THEN "ReadError"
        ELSE IF input.file = "garbage" THEN "ParseError"
        ELSE IF input.payload = None THEN "PayloadReadError"
        ELSE IF ~verify_checksum(input.payload[1], manifest.checksum)
        THEN "ChecksumMismatch"
        ELSE IF ~verify_signature(input.payload[1], manifest)
        THEN "SignatureInvalid"
        ELSE IF ~Compiles(input.payload[1]) THEN "CompileError"
        ELSE IF ~(Imports(input.payload[1]) \subseteq register_host_functions(granted))
        THEN "InstantiateError"
        ELSE "Ok"

\* The outcomes with which launch_module returns before log_module_loaded.
FailsBeforeLog ==
    {"ReadError", "ParseError", "PayloadReadError", "ChecksumMismatch",
     "SignatureInvalid"}

\* log_module_loaded placed before verify_checksum.
LogsModuleLoadedEarly(result) ==
    result \notin {"ReadError", "ParseError", "PayloadReadError"}

\* Whether the call reaches `self.audit_log.log_module_loaded(..)`.
LogsModuleLoaded(result) == result \notin FailsBeforeLog

\* tokio::spawn placed before instantiate_async.
SpawnsTaskEarly(result) == result \in {"Ok", "InstantiateError"}

\* Whether the call reaches tokio::spawn and ModuleRegistry::register,
\* which follow the last `?`.
SpawnsTask(result) == result = "Ok"

\* AuditEventType, as the kernel and its guest tasks build it.
ModuleLoaded(module_name, checksum) ==
    [type |-> "ModuleLoaded", module_name |-> module_name, detail |-> checksum]
ExecutionCompleted(module_name) ==
    [type |-> "ExecutionCompleted", module_name |-> module_name, detail |-> "_start"]
FuelExhausted(module_name) ==
    [type |-> "FuelExhausted", module_name |-> module_name, detail |-> "max_fuel"]
ModuleCrashed(module_name, error) ==
    [type |-> "ModuleCrashed", module_name |-> module_name, detail |-> error]
KernelShutdown ==
    [type |-> "KernelShutdown", module_name |-> "", detail |-> "normal shutdown"]

\* ModuleStats::default()
ModuleStatsDefault == [fuel_consumed |-> 0, invocation_count |-> 0, error_count |-> 0]

\* The guest task tokio::spawn starts: the instance it owns (module name,
\* payload, granted capabilities, linked host functions), the ModuleStats
\* it shares with the registry and where it stands.
GuestTask(manifest, bytes) ==
    [name |-> manifest.name, module |-> bytes,
     capabilities |-> parse_capabilities(manifest),
     linked |-> register_host_functions(parse_capabilities(manifest)),
     stats |-> ModuleStatsDefault, status |-> "Running"]

\* ModuleHandle: the JoinHandle is the index of the task in `tasks`.
ModuleHandle(name, handle, granted) ==
    [name |-> name, handle |-> handle, capabilities |-> granted]

\* ModuleRegistry::register: HashMap::insert replaces the entry of the name,
\* and the JoinHandle it held is dropped, which detaches its task.
register(name, handle, granted) ==
    [k \in DOMAIN registry \cup {name} |->
        IF k = name THEN ModuleHandle(name, handle, granted) ELSE registry[k]]

InitKernel ==
    /\ registry = EmptyMap
    /\ tasks = <<>>
    /\ require_signatures \in BOOLEAN
    /\ signature_verifier \in {None, Some(TrustedKey)}
    /\ shutting_down = 0
    /\ launching = {}

\* Kernel::launch_module
launch_module(input) ==
    LET result == LaunchResult(input)
        manifest == input.manifest
    IN  /\ IF LogsModuleLoaded(result)
           THEN append(ModuleLoaded(manifest.name, manifest.checksum), "kernel")
           ELSE UNCHANGED <<auditVars, clock>>
        /\ IF SpawnsTask(result)
           THEN /\ tasks' = Append(tasks, GuestTask(manifest, input.payload[1]))
                /\ registry' = register(manifest.name, Len(tasks) + 1,
                                        parse_capabilities(manifest))
           ELSE UNCHANGED <<registry, tasks>>
        /\ UNCHANGED <<require_signatures, signature_verifier, shutting_down,
                       launching>>

\* The fuel `store.fuel_consumed()` reports after a run.
FuelConsumed == 7

\* How a running guest task can end: without `_start` it just returns;
\* otherwise `_start` returns, runs out of fuel, or traps otherwise (an
\* out-of-bounds access past the memory limit, unreachable, ...).
GuestOutcomes(task) ==
    IF HasStart(task.module)
    THEN {"Completed", "FuelExhausted", "Trap"}
    ELSE {"Exited"}

\* format!("{:?}", e) for a trap whose message does not contain "fuel".
ErrorMessage == "wasm trap"

\* The body of the spawned task, from the return of start.call_async on.
guest_finish(t, outcome) ==
    /\ t \in 1..Len(tasks)
    /\ tasks[t].status = "Running"
    /\ outcome \in GuestOutcomes(tasks[t])
    /\ LET task == tasks[t]
           stats == task.stats
       IN  CASE outcome = "Exited" ->
                  /\ tasks' = [tasks EXCEPT ![t].status = "Exited"]
                  /\ UNCHANGED <<auditVars, clock>>
             [] outcome = "Completed" ->
                  /\ tasks' = [tasks EXCEPT ![t].status = "Completed",
                                  ![t].stats = [stats EXCEPT
                                      !.fuel_consumed = @ + FuelConsumed,
                                      !.invocation_count = @ + 1]]
                  /\ append(ExecutionCompleted(task.name), "kernel")
             [] outcome = "FuelExhausted" ->
                  /\ tasks' = [tasks EXCEPT ![t].status = "Trapped",
                                  ![t].stats = [stats EXCEPT
                                      !.error_count = @ + 1,
                                      !.invocation_count = @ + 1]]
                  /\ append(FuelExhausted(task.name), "kernel")
             [] OTHER ->
                  /\ tasks' = [tasks EXCEPT ![t].status = "Trapped",
                                  ![t].stats = [stats EXCEPT
                                      !.error_count = @ + 1,
                                      !.invocation_count = @ + 1]]
                  /\ append(ModuleCrashed(task.name, ErrorMessage), "kernel")
    /\ UNCHANGED <<registry, require_signatures, signature_verifier, shutting_down,
                   launching>>

\* ModuleRegistry::shutdown_all: drain() and abort() on every handle; a
\* task that has ended is not affected by abort.
AbortedTasks ==
    [t \in 1..Len(tasks) |->
        IF /\ \E name \in DOMAIN registry : registry[name].handle = t
           /\ tasks[t].status = "Running"
        THEN [tasks[t] EXCEPT !.status = "Aborted"]
        ELSE tasks[t]]

\* Kernel::shutdown up to `self.registry.write().await`: the KernelShutdown
\* entry is appended.
shutdown_append ==
    /\ append(KernelShutdown, "kernel")
    /\ shutting_down' = shutting_down + 1
    /\ UNCHANGED <<registry, tasks, require_signatures, signature_verifier,
                   launching>>

\* reg.shutdown_all() run before the KernelShutdown entry is appended.
shutdown_all_modules_first ==
    /\ tasks' = AbortedTasks
    /\ registry' = EmptyMap
    /\ UNCHANGED <<auditVars, clock, require_signatures, signature_verifier,
                   shutting_down, launching>>

\* Kernel::shutdown from the registry lock on: reg.shutdown_all().
shutdown_all_modules ==
    /\ shutting_down > 0
    /\ shutting_down' = shutting_down - 1
    /\ tasks' = AbortedTasks
    /\ registry' = EmptyMap
    /\ UNCHANGED <<auditVars, clock, require_signatures, signature_verifier,
                   launching>>

\* Kernel::list_modules
list_modules == DOMAIN registry

\* A step of the kernel leaves the capability manager and the supervisor alone.
OnlyKernel ==
    UNCHANGED <<capabilities, tokens, revocations, next_id, supVars, delegating,
                lockVars>>

NextKernel ==
    \/ \E input \in LaunchInputs :
         /\ Len(tasks) < MaxLaunches
         /\ sequence < MaxKernelEvents
         /\ launch_module(input)
         /\ OnlyKernel
    \/ \E t \in 1..Len(tasks) : \E outcome \in GuestOutcomes(tasks[t]) :
         guest_finish(t, outcome) /\ OnlyKernel
    \/ sequence < MaxKernelEvents /\ shutdown_append /\ OnlyKernel
    \/ shutdown_all_modules /\ OnlyKernel

(***************************************************************************)
(* launch_module as the tasks of the runtime see it.  launch_module holds  *)
(* no lock from tokio::spawn to `self.registry.write().await`, so other    *)
(* calls can run in between; the action launch_module above is the call    *)
(* with nothing in between.                                                *)
(***************************************************************************)
\* Some shutdown call has appended its KernelShutdown entry.
ShutdownCalled == \E i \in 1..Len(entries) : entries[i].event = KernelShutdown

\* launch_module up to tokio::spawn: the ModuleLoaded entry is appended and
\* the guest task is started; the call holds its JoinHandle.
launch_spawn(input) ==
    LET result == LaunchResult(input)
        manifest == input.manifest
    IN  /\ IF LogsModuleLoaded(result)
           THEN append(ModuleLoaded(manifest.name, manifest.checksum), "kernel")
           ELSE UNCHANGED <<auditVars, clock>>
        /\ IF SpawnsTask(result)
           THEN /\ tasks' = Append(tasks, GuestTask(manifest, input.payload[1]))
                /\ launching' = launching \cup
                      {ModuleHandle(manifest.name, Len(tasks) + 1,
                                    parse_capabilities(manifest))}
           ELSE UNCHANGED <<tasks, launching>>
        /\ UNCHANGED <<registry, require_signatures, signature_verifier,
                       shutting_down>>

\* launch_module from `self.registry.write().await` on: reg.register(..).
launch_register(call) ==
    /\ call \in launching
    /\ launching' = launching \ {call}
    /\ registry' = register(call.name, call.handle, call.capabilities)
    /\ UNCHANGED <<auditVars, clock, tasks, require_signatures,
                   signature_verifier, shutting_down>>

\* The kernel with launches in flight and one shutdown call, every launch
\* initiated before the shutdown call.
NextKernelRace ==
    \/ \E input \in SignedLaunches :
         /\ ~ShutdownCalled
         /\ Len(tasks) < MaxLaunches
         /\ sequence < MaxKernelEvents
         /\ launch_spawn(input)
         /\ OnlyKernel
    \/ \E call \in launching : launch_register(call) /\ OnlyKernel
    \/ \E t \in 1..Len(tasks) : \E outcome \in GuestOutcomes(tasks[t]) :
         guest_finish(t, outcome) /\ OnlyKernel
    \/ ~ShutdownCalled /\ shutdown_append /\ OnlyKernel
    \/ shutdown_all_modules /\ OnlyKernel

(***************************************************************************)
(* The reader/writer locks of the audit log and of the capability manager. *)
(* Every field of the two structs is behind a tokio::sync::RwLock, which   *)
(* is fair: waiters queue in the order of their requests, and a guard is   *)
(* held until it is dropped, at the end of its block.                      *)
(***************************************************************************)
\* The tasks of the runtime that call the two components.
LockTasks == 1..MaxLockTasks

\* AuditLog.entries, .sequence, .last_hash and CapabilityManager
\* .capabilities, .tokens, .revocations.
LockNames ==
    {"audit.entries", "audit.sequence", "audit.last_hash",
     "caps.capabilities", "caps.tokens", "caps.revocations"}

\* `lock.read().await`, `lock.write().await`, and the end of the block of a
\* guard that is dropped before the call returns.
Read(lock) == [kind |-> "acquire", lock |-> lock, mode |-> "read"]
Write(lock) == [kind |-> "acquire", lock |-> lock, mode |-> "write"]
Drop(lock) == [kind |-> "drop", lock |-> lock, mode |-> ""]

\* CapabilityManager::stats taking the revocation set before the table.
cap_stats_locks_reversed == <<Read("caps.revocations"), Read("caps.capabilities")>>

\* CapabilityManager::stats
cap_stats_locks == <<Read("caps.capabilities"), Read("caps.revocations")>>

\* CapabilityManager::validate: the revocation set is read in a block of
\* its own.
validate_locks ==
    <<Read("caps.revocations"), Drop("caps.revocations"), Read("caps.capabilities")>>

\* CapabilityManager::create_capability, and delegate after its validate.
insert_locks == <<Write("caps.capabilities"), Write("caps.tokens")>>

\* What each call does with the locks, in program order; the guards still
\* held are dropped when the call returns.
LockProgram(op) ==
    CASE op = "append" ->
           <<Write("audit.entries"), Write("audit.sequence"), Write("audit.last_hash")>>
      [] op = "audit_stats" -> <<Read("audit.entries"), Read("audit.sequence")>>
      [] op = "verify_chain" -> <<Read("audit.entries")>>
      [] op = "create_capability" -> insert_locks
      [] op = "validate" -> validate_locks
      [] op = "record_usage" -> <<Write("caps.capabilities")>>
      [] op = "delegate" ->
           validate_locks \o <<Drop("caps.capabilities")>> \o insert_locks
      [] op = "revoke" -> <<Write("caps.capabilities"), Write("caps.revocations")>>
      [] op = "list_capabilities" -> <<Read("caps.capabilities")>>
      [] op = "stats" -> cap_stats_locks

\* The calls of the two components; verify_chain stands for the get_entries
\* queries as well, which take the same lock in the same mode.
LockOps ==
    {"append", "audit_stats", "verify_chain",
     "create_capability", "validate", "record_usage", "delegate", "revoke",
     "list_capabilities", "stats"}

\* A task that is in no call.
Idle == [op |-> "", pc |-> 0]

InitLocks ==
    /\ locks = [l \in LockNames |-> [held |-> {}, queue |-> <<>>]]
    /\ calls = [t \in LockTasks |-> Idle]

\* The step of its program the task is at, if it has one left.
InCall(t) == calls[t] # Idle
AtStep(t) == InCall(t) /\ calls[t].pc <= Len(LockProgram(calls[t].op))
StepOf(t) == LockProgram(calls[t].op)[calls[t].pc]

\* The task waits in the queue of the lock.
Queued(t, l) == \E i \in 1..Len(locks[l].queue) : locks[l].queue[i][1] = t
Waiting(t) == \E l \in LockNames : Queued(t, l)

\* The lock can be given in the mode: a writer needs it free, a reader
\* needs it free of writers.
Compatible(l, mode) ==
    IF mode = "write" THEN locks[l].held = {}
    ELSE \A h \in locks[l].held : h[2] = "read"

\* `.read().await` / `.write().await` by task t: the guard is returned at
\* once if nobody waits and the mode is compatible, else the task joins the
\* queue.  The locks after the request, and whether the guard was returned.
Requested(t, step) ==
    LET l == step.lock
        at_once == locks[l].queue = <<>> /\ Compatible(l, step.mode)
    IN  [at_once |-> at_once,
         locks |-> IF at_once
                   THEN [locks EXCEPT ![l].held = @ \cup {<<t, step.mode>>}]
                   ELSE [locks EXCEPT ![l].queue = Append(@, <<t, step.mode>>)]]

\* A task enters one of the calls: every call starts by awaiting its first
\* lock.
call_begins(t, op) ==
    LET r == Requested(t, LockProgram(op)[1]) IN
    /\ ~InCall(t)
    /\ locks' = r.locks
    /\ calls' = [calls EXCEPT ![t] = [op |-> op, pc |-> IF r.at_once THEN 2 ELSE 1]]

\* A later `.read().await` / `.write().await` of a call.
lock_requested(t) ==
    /\ AtStep(t) /\ StepOf(t).kind = "acquire" /\ ~Waiting(t)
    /\ LET r == Requested(t, StepOf(t)) IN
       /\ locks' = r.locks
       /\ calls' = [calls EXCEPT ![t].pc = IF r.at_once THEN @ + 1 ELSE @]

\* The waiter at the head of a queue gets its guard.
lock_granted(t) ==
    /\ AtStep(t) /\ StepOf(t).kind = "acquire"
    /\ LET l == StepOf(t).lock
           mode == StepOf(t).mode
       IN  /\ locks[l].queue # <<>>
           /\ Head(locks[l].queue) = <<t, mode>>
           /\ Compatible(l, mode)
           /\ locks' = [locks EXCEPT ![l].held = @ \cup {<<t, mode>>},
                                     ![l].queue = Tail(@)]
           /\ calls' = [calls EXCEPT ![t].pc = @ + 1]

\* The end of an inner block: its guard is dropped.
guard_dropped(t) ==
    /\ AtStep(t) /\ StepOf(t).kind = "drop"
    /\ locks' = [locks EXCEPT ![StepOf(t).lock].held =
                    {h \in @ : h[1] # t}]
    /\ calls' = [calls EXCEPT ![t].pc = @ + 1]

\* The call returns: every guard it still holds is dropped.
call_returns(t) ==
    /\ InCall(t) /\ ~AtStep(t)
    /\ locks' = [l \in LockNames |->
                    [locks[l] EXCEPT !.held = {h \in @ : h[1] # t}]]
    /\ calls' = [calls EXCEPT ![t] = Idle]

\* A step of a call in progress.
call_advances(t) ==
    lock_requested(t) \/ lock_granted(t) \/ guard_dropped(t) \/ call_returns(t)

\* A step on the locks leaves the data of the components alone.
OnlyLocks == UNCHANGED <<capVars, auditVars, supVars, delegating, kernelVars>>

NextLocks ==
    \/ \E t \in LockTasks, op \in LockOps : call_begins(t, op) /\ OnlyLocks
    \/ \E t \in LockTasks : lock_requested(t) /\ OnlyLocks
    \/ \E t \in LockTasks : lock_granted(t) /\ OnlyLocks
    \/ \E t \in LockTasks : guard_dropped(t) /\ OnlyLocks
    \/ \E t \in LockTasks : call_returns(t) /\ OnlyLocks

(***************************************************************************)
(* Specifications                                                          *)
(***************************************************************************)
Init ==
    InitCap /\ InitAudit /\ InitSup /\ InitKernel /\ InitLocks /\ delegating = {}

\* The kernel built by Kernel::new(): ExecutionConfig::default() and no
\* signature verifier.
InitDefaultKernel ==
    Init /\ require_signatures = FALSE /\ signature_verifier = None

\* The default kernel with the log built by AuditLogConfig::default().
InitDefaultLog == InitDefaultKernel /\ max_entries = DefaultMaxEntries

\* A kernel built by with_config and with_signature_verifier, with the
\* log of AuditLog::with_defaults().
InitConfiguredKernel == Init /\ max_entries = DefaultMaxEntries

SpecCap == InitDefaultLog /\ [][NextCap]_vars
SpecCapChain == InitDefaultLog /\ [][NextCapChain]_vars
SpecCapUsage == InitDefaultLog /\ [][NextCapUsage]_vars
\* The default kernel's log and supervisor with the full-width manager.
InitWide ==
    /\ InitCapWide /\ InitAudit /\ InitSup /\ InitKernel /\ InitLocks
    /\ delegating = {}
    /\ require_signatures = FALSE /\ signature_verifier = None
    /\ max_entries = DefaultMaxEntries

SpecCapWide == InitWide /\ [][NextCapWide]_vars
SpecCapRace == InitDefaultLog /\ [][NextCapRace]_vars
SpecAudit == InitDefaultKernel /\ [][NextAudit]_vars
SpecAuditTamper == InitDefaultKernel /\ [][NextAuditTamper]_vars
SpecKernelRace == InitDefaultLog /\ [][NextKernelRace]_vars
SpecLocks == InitDefaultLog /\ [][NextLocks]_vars

\* The tokio scheduler polls every task that can run, and the RwLock hands
\* a guard to the head of its queue as soon as it can: a call in progress
\* that can take a step takes one.
SpecLocksFair ==
    SpecLocks /\ \A t \in LockTasks : WF_vars(call_advances(t) /\ OnlyLocks)

SpecSup == InitDefaultLog /\ [][NextSup]_vars
SpecSupPair == InitDefaultLog /\ [][NextSupPair]_vars
SpecKernel == InitConfiguredKernel /\ [][NextKernel]_vars

(***************************************************************************)
(* Properties of the capability manager                                    *)
(***************************************************************************)
\* The token create/delegate minted for the capability with this id.
TokenOf(id) == CapabilityTokenNew(id, Secret)

\* Every set of required rights used in the properties.
AnyRequired == RequiredRightSets \cup {{}, {"Delegate"}}

\* C1: a token string that was not minted by the manager (a live id with a
\* wrong or a missing suffix) is accepted by no operation that takes a token:
\* validate, record_usage, delegate and revoke all refuse it.
C1_TokensUnforgeable ==
    \A token \in ForgedTokens :
        /\ \A required \in AnyRequired : ValidateResult(token, required).kind # "Ok"
        /\ RecordUsageResult(token).kind # "Ok"
        /\ \A rights \in DelegateRightSets : DelegateResult(token, rights).kind # "Ok"
        /\ RevokeResult(token).kind # "Ok"

RECURSIVE AncestorsUpTo(_, _)
\* The ids on the parent_id chain above id, at most n links up.
AncestorsUpTo(id, n) ==
    IF n = 0 \/ id \notin DOMAIN capabilities \/ capabilities[id].parent_id = None
    THEN {}
    ELSE LET p == capabilities[id].parent_id[1]
         IN  {p} \cup AncestorsUpTo(p, n - 1)

Ancestors(id) == AncestorsUpTo(id, Cardinality(DOMAIN capabilities))

\* C2: once a capability is revoked, validate fails with Revoked for it and
\* for every capability derived from it through any chain of delegations.
C2_CascadingRevocation ==
    \A id \in DOMAIN capabilities :
        ((Ancestors(id) \cup {id}) \cap revocations # {})
            => \A required \in AnyRequired :
                 ValidateResult(TokenOf(id), required).kind = "Revoked"

\* The capability a token names, when it names one in the table.
Names(token, id) ==
    capability_id(token) = Some(id) /\ id \in DOMAIN capabilities

\* C4 (state part): every delegated capability's rights are a subset of its
\* parent's rights, and a delegate call requesting a right its parent lacks
\* is refused, with InsufficientRights whenever the parent itself is live.
C4_Attenuated ==
    /\ \A id \in DOMAIN capabilities :
          capabilities[id].parent_id # None =>
            /\ capabilities[id].parent_id[1] \in DOMAIN capabilities
            /\ capabilities[id].rights
                 \subseteq capabilities[capabilities[id].parent_id[1]].rights
    /\ \A token \in TokenInputs, rights \in DelegateRightSets, id \in DOMAIN capabilities :
          (Names(token, id) /\ ~(rights \subseteq capabilities[id].rights)) =>
            /\ DelegateResult(token, rights).kind # "Ok"
            /\ ValidateResult(token, {}).kind = "Ok"
                 => DelegateResult(token, rights).kind = "InsufficientRights"

\* C4 (step part): such a delegate call adds no capability and no token: a
\* step that adds a key to either table is not a delegate call of that kind.
C4_RefusedAddsNothing ==
    (DOMAIN capabilities' # DOMAIN capabilities \/ DOMAIN tokens' # DOMAIN tokens) =>
        \A id \in DOMAIN capabilities, rights \in DelegateRightSets :
            ~(rights \subseteq capabilities[id].rights) =>
                \A token \in TokenInputs, owner \in DelegateOwners,
                   validity \in DelegateValidities :
                    ~(Names(token, id) /\ delegate(token, owner, rights, validity))

C5_ValidateSound ==
    /\ \A token \in TokenInputs, required \in AnyRequired :
          LET r == ValidateResult(token, required) IN
          r.kind = "Ok" =>
            LET c == r.value[1] IN
            /\ Names(token, c.id)
            /\ c = capabilities[c.id]
            /\ required \subseteq c.rights
            /\ c.id \notin revocations
            /\ ~c.revoked
            /\ c.validity.expires_at # None => clock <= c.validity.expires_at[1]
            /\ c.validity.max_uses # None
                 => c.validity.use_count < c.validity.max_uses[1]
    /\ \A id \in DOMAIN capabilities :
          LET c == capabilities[id] IN
          (/\ c.validity.expires_at = Some(clock)
           /\ ~c.revoked /\ id \notin revocations
           /\ c.validity.max_uses = None)
            => ValidateResult(TokenOf(id), {}).kind = "Ok"

\* validate succeeds at the very instant a capability expires.
C5_Witness ==
    \E id \in DOMAIN capabilities :
        /\ capabilities[id].validity.expires_at = Some(clock)
        /\ ValidateResult(TokenOf(id), {"Read"}).kind = "Ok"

(***************************************************************************)
(* Properties of the audit log                                             *)
(***************************************************************************)
\* C3: after any sequence of appends with no tampering, also after the
\* oldest entries have been dropped, verify_chain returns valid = true.
C3_HeadDropKeepsChainValid == verify_chain(entries).valid

\* C6 (state part): the ring holds consecutive sequence numbers ending at
\* the counter, all of them at least 1, so it is strictly ascending and no
\* two entries share a sequence.
C6_RingAscending ==
    /\ \A i \in 1..Len(entries) :
          /\ entries[i].sequence = sequence - Len(entries) + i
          /\ entries[i].sequence >= 1
    /\ \A i, j \in 1..Len(entries) :
          i < j => entries[i].sequence < entries[j].sequence

\* C6 (step part): every append, from whichever component, takes the next
\* number after the one taken by the append before it.
C6_NextNumber ==
    entries' # entries =>
        /\ sequence' = sequence + 1
        /\ entries'[Len(entries')].sequence = sequence + 1

\* C6: sequence numbers are assigned 1, 2, 3, ... in append order, no two
\* entries share one and the ring is strictly ascending, for every
\* interleaving of appends from different components.
C6_SequenceMonotonic == []C6_RingAscending /\ [][C6_NextNumber]_vars

\* A full ring that has dropped its head and holds entries of two components.
C6_Witness ==
    /\ max_entries >= 2
    /\ Len(entries) = max_entries
    /\ sequence > max_entries
    /\ \E i, j \in 1..Len(entries) : entries[i].source # entries[j].source

\* C7 (state part): adjacent in-memory entries are chained and last_hash is
\* the hash of the entry appended last (the genesis hash before any append).
C7_RingChained ==
    /\ \A i \in 1..(Len(entries) - 1) : entries[i + 1].prev_hash = entries[i].hash
    /\ last_hash = IF sequence = 0 THEN GenesisHash ELSE entries[Len(entries)].hash
    /\ sequence > 0 => Len(entries) > 0

\* C7 (step part): an appended entry carries the hash of the entry appended
\* immediately before it, the genesis hash if it is the first ever.
C7_ChainsToPredecessor ==
    entries' # entries =>
        /\ entries'[Len(entries')].prev_hash = last_hash
        /\ sequence = 0 => entries'[Len(entries')].prev_hash = GenesisHash
        /\ last_hash' = entries'[Len(entries')].hash

\* C7: chain continuity - every appended entry's prev_hash is the hash of
\* the entry appended immediately before it, whether or not that entry is
\* still in the ring, so adjacent in-memory entries are always chained.
C7_ChainContinuity == []C7_RingChained /\ [][C7_ChainsToPredecessor]_vars

\* The oldest in-memory entry chains to an entry that has been dropped.
C7_Witness ==
    /\ max_entries >= 2
    /\ Len(entries) = max_entries
    /\ sequence > max_entries
    /\ entries[1].prev_hash # GenesisHash
    /\ entries[2].prev_hash = entries[1].hash

(***************************************************************************)
(* Properties of the supervisor                                            *)
(***************************************************************************)
\* The edges of the child state machine.
Edges ==
    {<<"Starting", "Running">>, <<"Starting", "Crashed">>,
     <<"Running", "Crashed">>, <<"Crashed", "Restarting">>,
     <<"Crashed", "Stopped">>, <<"Crashed", "Terminated">>,
     <<"Restarting", "Starting">>}

\* One call moves a child along an edge, or along an edge into Crashed and
\* an edge out of it (report_crash holds the lock across both).
AlongEdges(from, to) ==
    \/ <<from, to>> \in Edges
    \/ <<from, "Crashed">> \in Edges /\ <<"Crashed", to>> \in Edges

\* The step is a report_crash call on the child.
IsReportCrash(id) ==
    /\ id \in DOMAIN children
    /\ id \in DOMAIN children'
    /\ children'[id].total_crashes = children[id].total_crashes + 1

\* The step is a shutdown_all call.
IsShutdownAll(id) ==
    /\ children'[id].state = Terminated
    /\ children'[id].total_crashes = children[id].total_crashes

C8_Step ==
    \A id \in DOMAIN children \cap DOMAIN children' :
        (children'[id].state # children[id].state /\ ~IsShutdownAll(id))
            => AlongEdges(children[id].state.tag, children'[id].state.tag)

\* C8: report_started, report_crash and execute_restart change a child's
\* state only along Starting->Running, Starting->Crashed, Running->Crashed,
\* Crashed->Restarting|Stopped|Terminated and Restarting->Starting; nothing
\* leaves Stopped or Terminated and report_started acts only on Starting.
C8_StateMachine == [][C8_Step]_vars

\* C9 (state part): no action a report_crash call has returned is a Restart
\* carrying level 4 or 5.
C9_ReturnedRestartsBelow4 ==
    \A id \in DOMAIN actions :
        actions[id].kind = "Restart"
            => actions[id].escalation < Level4RestartSupervisor

\* C9 (step part): a report_crash call that takes the restart path and
\* leaves the level at 4 or 5 leaves the child Stopped and returns
\* Escalate with that level.
C9_EscalatesFrom4 ==
    \A id \in ChildIds :
        (/\ IsReportCrash(id)
         /\ children'[id].escalation_level >= Level4RestartSupervisor
         /\ actions'[id].kind # "Stop")
            => /\ children'[id].state.tag = "Stopped"
               /\ actions'[id] = EscalateAction(children'[id].escalation_level)

\* C9: report_crash never returns a Restart action carrying escalation
\* level 4 or 5; a crash that moves the level to RestartSupervisor or above
\* puts the child in Stopped and returns Escalate(level).
C9_NoRestartAboveLevel3 ==
    []C9_ReturnedRestartsBelow4 /\ [][C9_EscalatesFrom4]_vars

\* A crash has escalated a child to RestartSupervisor.
C9_Witness ==
    \E id \in DOMAIN children \cap DOMAIN actions :
        /\ children[id].escalation_level = Level4RestartSupervisor
        /\ children[id].state.tag = "Stopped"
        /\ actions[id] = EscalateAction(Level4RestartSupervisor)

\* report_crash is called on a child that takes the restart path and has
\* restart_count >= max_restarts inside its still-open window.
LimitReached(id) ==
    /\ IsReportCrash(id)
    /\ actions'[id].kind # "Stop"
    /\ children[id].restart_window_start # None
    /\ instant - children[id].restart_window_start[1] <= window_duration(children[id])
    /\ children[id].restart_count >= children[id].spec.max_restarts

C10_OriginalStep ==
    \A id \in ChildIds :
        LimitReached(id)
            => /\ children'[id].escalation_level = children[id].escalation_level + 1
               /\ children'[id].restart_count =
                      IF actions'[id].kind = "Restart" THEN 1 ELSE 0

\* C10 as stated: a crash that finds restart_count >= max_restarts in the
\* open window advances the level by exactly one step and resets
\* restart_count to 0 (the crash itself is then counted when the call
\* returns Restart).
C10_AdvancesOneStepAndResets == [][C10_OriginalStep]_vars

C10_AmendedStep ==
    \A id \in ChildIds :
        LimitReached(id)
            => LET level == next(children[id].escalation_level) IN
               /\ children'[id].escalation_level = level
               /\ level < Level4RestartSupervisor
                    => /\ children'[id].restart_count = 1
                       /\ children'[id].state = Restarting(1)
                       /\ actions'[id].kind = "Restart"
                       /\ actions'[id].escalation = level
               /\ level >= Level4RestartSupervisor
                    => /\ children'[id].restart_count = children[id].restart_count
                       /\ children'[id].state.tag = "Stopped"
                       /\ actions'[id] = EscalateAction(level)
               /\ (/\ children[id].spec.max_restarts = 2
                   /\ children[id].total_crashes = 2)
                    => /\ actions'[id].kind = "Restart"
                       /\ actions'[id].escalation >= 2

\* C10 (amended): a crash that finds restart_count >= max_restarts in the
\* open window moves the level to next(level), one step up and staying at
\* 5 from 5; if the new level is below 4 the count restarts from 0 and the
\* crash is counted (restart_count = 1, Restart with the new level); if it
\* is 4 or 5 restart_count is left as it was and the call returns
\* Escalate.  With max_restarts = 2 the third crash in a row returns
\* Restart with level 2 or higher.
C10_EscalationStep == [][C10_AmendedStep]_vars

\* The third crash in a row of a child with max_restarts = 2.
C10_Witness ==
    \E id \in DOMAIN children \cap DOMAIN actions :
        /\ children[id].spec.max_restarts = 2
        /\ children[id].total_crashes = 3
        /\ children[id].escalation_level = 2
        /\ children[id].restart_count = 1
        /\ actions[id].kind = "Restart"
        /\ actions[id].escalation = 2

\* The delay the backoff formula gives for an attempt number.
BackoffDelay(spec, attempt) ==
    LET delay_ms == spec.base_restart_delay_ms * powf(spec.backoff_factor, attempt)
    IN  IF delay_ms < spec.max_restart_delay_ms
        THEN delay_ms ELSE spec.max_restart_delay_ms

C11_Step ==
    \A id \in ChildIds :
        (IsReportCrash(id) /\ actions'[id].kind = "Restart")
            => /\ actions'[id].delay =
                    BackoffDelay(children'[id].spec, children'[id].restart_count - 1)
               /\ actions'[id].delay <= children'[id].spec.max_restart_delay_ms

\* C11: the delay report_crash returns is
\* min(max_restart_delay_ms, base_restart_delay_ms * backoff_factor^attempt)
\* with attempt = 0 for the first crash of a window, 1 for the second and so
\* on (base 100 ms, factor 2: 100, 200, 400 ms), never above the cap.
C11_BackoffFromAttemptZero == [][C11_Step]_vars

(***************************************************************************)
(* Properties of concurrent capability-manager calls                       *)
(***************************************************************************)
\* C12: delegate(parent, ...) racing with revoke(parent) ends as one of the
\* two sequential orders does (the delegation refused with Revoked, or the
\* child revoked by the sweep): no capability in the table is non-revoked
\* while its parent is revoked.
C12_NoLiveChildOfRevokedParent ==
    \A id \in DOMAIN capabilities :
        (/\ capabilities[id].parent_id # None
         /\ capabilities[id].parent_id[1] \in revocations)
            => (id \in revocations /\ capabilities[id].revoked)

(***************************************************************************)
(* Further properties of the capability manager                            *)
(***************************************************************************)
\* C13: delegate succeeds only on a capability that holds Delegate, so a
\* delegated capability can be delegated further only if Delegate was among
\* the rights requested for it, and every capability on a chain of
\* delegations above another one holds Delegate.
C13_DelegateNeedsDelegateRight ==
    /\ \A token \in TokenInputs, rights \in DelegateRightSets :
          DelegateResult(token, rights).kind = "Ok" =>
              \E id \in DOMAIN capabilities :
                  Names(token, id) /\ "Delegate" \in capabilities[id].rights
    /\ \A id \in DOMAIN capabilities :
          \A a \in Ancestors(id) :
              a \in DOMAIN capabilities /\ "Delegate" \in capabilities[a].rights

\* A chain of two delegations exists, and a delegated capability that was
\* not given Delegate is refused a further delegation.
C13_Witness ==
    /\ \E id \in DOMAIN capabilities : Cardinality(Ancestors(id)) = 2
    /\ \E id \in DOMAIN capabilities :
          /\ capabilities[id].parent_id # None
          /\ "Delegate" \notin capabilities[id].rights
          /\ ValidateResult(TokenOf(id), {}).kind = "Ok"
          /\ DelegateResult(TokenOf(id), {"Read"}).kind = "InsufficientRights"

\* C14 (state part): validate succeeds on no token naming a capability that
\* is in the revocation set or carries the revoked flag.
C14_RevokedNeverValidates ==
    \A id \in DOMAIN capabilities :
        (id \in revocations \/ capabilities[id].revoked) =>
            \A token \in TokenInputs, required \in AnyRequired :
                Names(token, id) => ValidateResult(token, required).kind # "Ok"

\* C14 (step part): no step removes an id from the revocation set, clears a
\* revoked flag or drops a revoked capability from the table.
C14_StaysRevoked ==
    /\ revocations \subseteq revocations'
    /\ \A id \in DOMAIN capabilities :
          capabilities[id].revoked =>
              id \in DOMAIN capabilities' /\ capabilities'[id].revoked

HasTwoUses(id) == capabilities[id].validity.max_uses = Some(2)

C15_LimitAfterTwoRecordedUses ==
    \A id \in DOMAIN capabilities :
        HasTwoUses(id) =>
            LET c == capabilities[id]
                is_revoked == c.revoked \/ id \in revocations
            IN  \A required \in AnyRequired :
                  LET r == ValidateResult(TokenOf(id), required) IN
                  /\ (c.validity.use_count < 2 /\ ~is_revoked
                      /\ c.validity.expires_at = None /\ required \subseteq c.rights)
                        => r.kind = "Ok"
                  /\ c.validity.use_count >= 2
                        => r.kind = IF is_revoked THEN "Revoked"
                                    ELSE "UsageLimitExceeded"

\* C15 (amended, step part): only record_usage consumes a use; a validate
\* call leaves use_count as it is.
C15_OnlyRecordUsageCounts ==
    \A id \in DOMAIN capabilities :
        capabilities'[id].validity.use_count # capabilities[id].validity.use_count
            => /\ capabilities'[id].validity.use_count
                    = capabilities[id].validity.use_count + 1
               /\ \E token \in TokenInputs :
                     Names(token, id) /\ record_usage(token)

C16_Step ==
    \A token \in TokenInputs, id \in DOMAIN capabilities :
        (Names(token, id) /\ revoke(token)) =>
            /\ \A marked \in (ToRevoke(id))' :
                  marked \in revocations' /\ capabilities'[marked].revoked
            /\ (RevokeResult(token))'.kind = "Ok"
            /\ \A required \in AnyRequired :
                  (ValidateResult(token, required))'.kind = "Revoked"

\* C16: double revoke is idempotent in effect - revoke(t); revoke(t) with
\* nothing in between leaves the capability table and the revocation set as
\* a single revoke(t) does, the second call returns without error and
\* validate(t) still fails with Revoked.
C16_DoubleRevokeIdempotent == [][C16_Step]_vars

\* A capability and a child of it have been revoked together.
C16_Witness ==
    \E id \in revocations, child \in revocations :
        /\ capabilities[child].parent_id = Some(id)
        /\ capabilities[id].revoked /\ capabilities[child].revoked
        /\ RevokeResult(TokenOf(id)).count = 2
        /\ ValidateResult(TokenOf(id), {}).kind = "Revoked"

(***************************************************************************)
(* Further properties of the audit log                                     *)
(***************************************************************************)
\* The sequence numbers the ring holds.
RingSequences == {entries[i].sequence : i \in 1..Len(entries)}

\* The larger of two numbers.
Max(a, b) == IF a >= b THEN a ELSE b

Untrimmed == entries # <<>> /\ entries[1].sequence = 1

\* The smallest element of a non-empty set of numbers.
Min(set) == CHOOSE x \in set : \A y \in set : x <= y

C19_Step ==
    \A id \in ChildIds :
        (IsReportCrash(id) /\ children[id].spec.restart = "Temporary") =>
            /\ actions'[id] = StopAction
            /\ children'[id].state.tag = "Stopped"
            /\ children'[id].restart_count = children[id].restart_count
            /\ children'[id].escalation_level = children[id].escalation_level

C19_TemporaryAlwaysStops == [][C19_Step]_vars

\* A Temporary child has crashed again after it was reported started again.
C19_Witness ==
    \E id \in DOMAIN children \cap DOMAIN actions :
        /\ children[id].spec.restart = "Temporary"
        /\ children[id].total_crashes >= 2
        /\ children[id].state.tag = "Stopped"
        /\ actions[id] = StopAction


\* The step is report_crash(id, error).
CrashedWith(id, error) ==
    /\ IsReportCrash(id)
    /\ LET r == ReportCrashChild(children[id], instant, error) IN
       /\ children'[id] = r.child
       /\ actions'[id] = r.action

\* A Transient child reported with "normal" or "shutdown" is stopped and no
\* restart is consumed.
C20_NormalStep ==
    \A id \in ChildIds : \A error \in {"normal", "shutdown"} :
        (CrashedWith(id, error) /\ children[id].spec.restart = "Transient") =>
            /\ actions'[id] = StopAction
            /\ children'[id].restart_count = children[id].restart_count
            /\ children'[id].restart_window_start =
                   children[id].restart_window_start
            /\ children'[id].escalation_level = children[id].escalation_level

\* C20 as stated: for a Transient child, report_crash with "normal" or
\* "shutdown" returns Stop with restart_count, window start and escalation
\* level unchanged, and with any other reason it returns Restart.
C20_AbnormalRestarts ==
    [][/\ C20_NormalStep
       /\ \A id \in ChildIds : \A error \in Errors \ {"normal", "shutdown"} :
            (CrashedWith(id, error) /\ children[id].spec.restart = "Transient")
                => actions'[id].kind = "Restart"]_vars

\* C20: for a Transient child, report_crash with "normal" or "shutdown"
\* returns Stop with restart_count, window start and escalation level
\* unchanged; with any other reason it never returns Stop: it returns
\* Restart, or Escalate once the restart limit has taken the child to level
\* four, which leaves the child Stopped.
C20_TransientExit ==
    [][/\ C20_NormalStep
       /\ \A id \in ChildIds : \A error \in Errors \ {"normal", "shutdown"} :
            (CrashedWith(id, error) /\ children[id].spec.restart = "Transient")
                => /\ actions'[id].kind \in {"Restart", "Escalate"}
                   /\ actions'[id].kind = "Escalate" <=>
                          /\ children'[id].escalation_level
                                 >= Level4RestartSupervisor
                          /\ children'[id].state.tag = "Stopped"]_vars

\* A Transient child that was restarted after an abnormal exit has exited
\* normally: it is Terminated with its restart still counted.
C20_Witness ==
    \E id \in DOMAIN children \cap DOMAIN actions :
        /\ children[id].spec.restart = "Transient"
        /\ children[id].state = Terminated
        /\ actions[id] = StopAction
        /\ children[id].restart_count >= 1
        /\ children[id].total_crashes >= 2

(***************************************************************************)
(* Properties of the kernel                                                *)
(***************************************************************************)
\* The step is launch_module(input) returning an error.
LaunchFailed(input) == LaunchResult(input) # "Ok" /\ launch_module(input)

\* The step is launch_module(input) returning Ok(()).
LaunchSucceeded(input) == LaunchResult(input) = "Ok" /\ launch_module(input)

\* What every launch_module step does to the log: nothing, or one
\* ModuleLoaded entry at its end.
MayBeLaunch ==
    \/ entries' = entries
    \/ /\ sequence' = sequence + 1
       /\ entries'[Len(entries')].event.type = "ModuleLoaded"

\* The audit log holds this event.
Logged(event) == \E i \in 1..Len(entries) : entries[i].event = event

\* C21: a launch_module call that returns an error, whichever step failed
\* (descriptor read or parse, payload read, checksum, signature, compile,
\* instantiate), leaves the module registry as it was and starts no guest
\* task.
C21_Step ==
    ((registry' # registry \/ tasks' # tasks) /\ MayBeLaunch) =>
        \A input \in LaunchInputs : ~LaunchFailed(input)

C21_FailedLaunchLeavesRegistry == [][C21_Step]_vars

\* A launch failed at compile time, after its ModuleLoaded entry was
\* written: no module is registered and no task was started.
C21_Witness ==
    /\ Logged(ModuleLoaded("mod_b", Sha256Hex("not_wasm")))
    /\ registry = EmptyMap
    /\ tasks = <<>>


\* The descriptor carries a signature made with the configured trusted key
\* over checksum || module_bytes, for the payload the launch read.
CarriesTrustedSignature(input) ==
    /\ input.file = "manifest"
    /\ input.payload # None
    /\ input.manifest.signature # None
    /\ signature_verifier # None
    /\ input.manifest.signature[1] =
           Signature(signature_verifier[1],
                     <<input.manifest.checksum, input.payload[1]>>)

\* C22: when require_signatures is true, a launch_module call gets as far
\* as the ModuleLoaded entry, the compilation, the guest task or the
\* registry only if its descriptor carries a signature that verifies
\* against the configured public key over checksum || module_bytes; with
\* the signature missing, no verifier configured or a signature that does
\* not verify, the call fails and has changed nothing.
C22_Step ==
    (require_signatures /\ MayBeLaunch) =>
        \A input \in LaunchInputs :
            launch_module(input) => CarriesTrustedSignature(input)

ModuleLoadedEntries(es) ==
    {i \in 1..Len(es) : es[i].event.type = "ModuleLoaded"}

\* C23: a ModuleLoaded entry is appended only by a launch whose payload
\* digest matched the descriptor's checksum and whose signature step
\* passed; a launch that fails with a checksum mismatch or, in strict mode,
\* a signature failure appends nothing.
C23_Step ==
    (entries' # entries /\ MayBeLaunch) =>
        \A input \in LaunchInputs :
            launch_module(input) =>
                /\ input.payload # None
                /\ Sha256Hex(input.payload[1]) = input.manifest.checksum
                /\ require_signatures => CarriesTrustedSignature(input)
                /\ LaunchResult(input) \notin {"ChecksumMismatch", "SignatureInvalid"}

\* Every ModuleLoaded entry in the log names a digest that is the SHA-256 of
\* some payload: one with the descriptor's wrong digest is never written.
C23_LoggedDigestsAreReal ==
    \A i \in ModuleLoadedEntries(entries) :
        \E bytes \in ModuleBytes : entries[i].event.detail = Sha256Hex(bytes)

C23_ModuleLoadedAfterVerification ==
    [][C23_Step]_vars /\ []C23_LoggedDigestsAreReal

\* A strict kernel has logged ModuleLoaded for a verified payload that then
\* failed to compile, and nothing else.
C23_Witness ==
    /\ require_signatures
    /\ Len(entries) = 1
    /\ entries[1].event = ModuleLoaded("mod_b", Sha256Hex("not_wasm"))
    /\ tasks = <<>>


\* The guest tasks still running for a module name.
RunningTasks(name) ==
    {t \in 1..Len(tasks) : tasks[t].name = name /\ tasks[t].status = "Running"}

\* C24: a module name maps to at most one live handle - after any sequence
\* of launch_module calls, including the launch of a name that is already
\* registered, at most one guest task is running per module name and it is
\* the task the registry entry of that name refers to.
C24_OneLiveTaskPerName ==
    \A name \in {"mod_a", "mod_b"} :
        /\ Cardinality(RunningTasks(name)) <= 1
        /\ \A t \in RunningTasks(name) :
               name \in DOMAIN registry /\ registry[name].handle = t


\* The descriptors' capability lists the launches of the model request.
RequestedLists == {l.manifest.capabilities : l \in LaunchInputs}

\* The names Capability::from_str recognizes, with the capability of each.
Recognized ==
    [s \in {"log", "audit_emit", "persistence_read", "persistence_write"} |->
        CASE s = "log" -> "Log"
          [] s = "audit_emit" -> "AuditEmit"
          [] s = "persistence_read" -> "PersistenceRead"
          [] s = "persistence_write" -> "PersistenceWrite"]

\* The capabilities in a granted list.
GrantedSet(granted) == {granted[i] : i \in 1..Len(granted)}

\* C25 (granted set): the capabilities granted for a requested list are
\* those of its recognized names, the other names being dropped.
C25_GrantedIsRecognizedSubset ==
    \A requested \in RequestedLists :
        GrantedSet(parse_names(requested)) =
            {Recognized[requested[i]] :
                i \in {j \in 1..Len(requested) : requested[j] \in DOMAIN Recognized}}

\* C25 (host surface): a guest task is linked with host_log exactly when Log
\* is granted to it, with host_audit_emit exactly when AuditEmit is, and
\* with nothing else, whatever persistence capability it holds.
C25_LinkedIsGranted ==
    \A t \in 1..Len(tasks) :
        /\ "host_log" \in tasks[t].linked <=> "Log" \in GrantedSet(tasks[t].capabilities)
        /\ "host_audit_emit" \in tasks[t].linked
               <=> "AuditEmit" \in GrantedSet(tasks[t].capabilities)
        /\ tasks[t].linked \subseteq {"host_log", "host_audit_emit"}

\* C25 (step): the task a successful launch starts and the registry entry it
\* writes hold the capabilities granted for the descriptor's list.
C25_Step ==
    (Len(tasks') = Len(tasks) + 1) =>
        \A input \in LaunchInputs :
            LaunchSucceeded(input) =>
                /\ tasks'[Len(tasks')].capabilities =
                       parse_names(input.manifest.capabilities)
                /\ registry'[input.manifest.name].capabilities =
                       parse_names(input.manifest.capabilities)

\* C25: the host surface linked into a module is exactly what its granted
\* capability set authorizes.
C25_HostSurfaceIsGranted ==
    /\ []C25_GrantedIsRecognizedSubset
    /\ []C25_LinkedIsGranted
    /\ [][C25_Step]_vars

\* A module granted Log and AuditEmit from a list with an unknown name runs
\* next to one granted only the persistence capabilities.
C25_Witness ==
    \E t, u \in 1..Len(tasks) :
        /\ tasks[t].capabilities = <<"Log", "AuditEmit">>
        /\ tasks[t].linked = {"host_log", "host_audit_emit"}
        /\ tasks[u].capabilities = <<"PersistenceRead", "PersistenceWrite">>
        /\ tasks[u].linked = {}


\* C26: every guest failure is routed to the supervisor - once a launched
\* module's _start has trapped (out of fuel or otherwise), the supervisor
\* has a crash of that module on record (report_crash was called for it).
C26_TrapsReachSupervisor ==
    \A t \in 1..Len(tasks) :
        tasks[t].status = "Trapped" =>
            /\ tasks[t].name \in DOMAIN children
            /\ children[tasks[t].name].total_crashes >= 1

\* The entry types a guest task writes when its run ends.
RunEndTypes == {"ExecutionCompleted", "FuelExhausted", "ModuleCrashed"}

\* C28 (step): the entry an operation appends has a larger sequence than
\* every entry appended before it.
C28_AppendsInOrder ==
    (entries' # entries) =>
        /\ Len(entries') > 0
        /\ \A i \in 1..Len(entries) :
               entries[i].sequence < entries'[Len(entries')].sequence

\* C28 (modules): an entry for the end of a module's run comes after a
\* ModuleLoaded entry of that module.
C28_LoadedBeforeRunEnds ==
    \A i \in 1..Len(entries) :
        entries[i].event.type \in RunEndTypes =>
            \E j \in 1..(i - 1) :
                /\ entries[j].event.type = "ModuleLoaded"
                /\ entries[j].event.module_name = entries[i].event.module_name
                /\ entries[j].sequence < entries[i].sequence

\* C28 (shutdown, step): a guest task is aborted only by a shutdown whose
\* KernelShutdown entry is already in the log.
C28_ShutdownLoggedBeforeAbort ==
    (\E t \in 1..Len(tasks) :
        tasks[t].status # "Aborted" /\ tasks'[t].status = "Aborted")
    => Logged(KernelShutdown)

\* C28: causal audit ordering - entries get increasing sequences in the
\* order the operations append them; a module's ModuleLoaded entry precedes
\* every ExecutionCompleted, FuelExhausted or ModuleCrashed entry of that
\* module; and KernelShutdown is appended before any module task is aborted.
C28_CausalAuditOrder ==
    /\ [][C28_AppendsInOrder /\ C28_ShutdownLoggedBeforeAbort]_vars
    /\ []C28_LoadedBeforeRunEnds

\* A module was loaded and its run has ended, and another one was aborted
\* by a shutdown whose KernelShutdown entry is in the log.
C28_Witness ==
    /\ \E i, j \in 1..Len(entries) :
          /\ i < j
          /\ entries[i].event.type = "ModuleLoaded"
          /\ entries[j].event.type \in RunEndTypes
          /\ entries[j].event.module_name = entries[i].event.module_name
    /\ Logged(KernelShutdown)
    /\ \E t \in 1..Len(tasks) : tasks[t].status = "Aborted"

(***************************************************************************)
(* More properties of the supervisor                                       *)
(***************************************************************************)
\* The step is a shutdown_all call: the only call that changes a child and
\* neither registers or unregisters one, counts a crash, touches a pending
\* restart nor sets a child Running.
IsShutdownAllStep ==
    /\ children' # children
    /\ DOMAIN children' = DOMAIN children
    /\ UNCHANGED <<sleeping, actions, instant>>
    /\ \A id \in DOMAIN children :
          /\ children'[id].total_crashes = children[id].total_crashes
          /\ children'[id].state # children[id].state
                => children'[id].state.tag # "Running"

\* C29: after shutdown_all, get_status reports every registered child as
\* Terminated, whatever state the child was in, and reports each of them.
C29_Step ==
    IsShutdownAllStep =>
        /\ \A status \in get_status' : status.state = <<"Terminated">>
        /\ {status.id : status \in get_status'} = DOMAIN children

C29_ShutdownTerminatesAll == [][C29_Step]_vars

\* A Permanent child that had crashed and a Temporary child that had been
\* stopped after its crash are both Terminated: only shutdown_all does that.
C29_Witness ==
    /\ DOMAIN children = PairIds
    /\ children["child1"].state = Terminated
    /\ children["child1"].restart_count >= 1
    /\ children["child2"].spec.restart = "Temporary"
    /\ children["child2"].state = Terminated
    /\ children["child2"].total_crashes >= 1

(***************************************************************************)
(* Properties of the capability manager and the audit log together         *)
(***************************************************************************)
\* The audit log holds an entry of one of these types.
LoggedType(types) == \E i \in 1..Len(entries) : entries[i].event.type \in types

\* C27: all capability operations are logged for audit - every capability
\* in the table has left a CapabilityCreated or CapabilityDelegated entry,
\* and every revoked one a CapabilityRevoked entry; the log has at least as
\* many entries as capabilities were made.
C27_CapabilityOperationsLogged ==
    /\ \A id \in DOMAIN capabilities :
          /\ IF capabilities[id].parent_id = None
             THEN LoggedType({"CapabilityCreated"})
             ELSE LoggedType({"CapabilityDelegated"})
          /\ capabilities[id].revoked => LoggedType({"CapabilityRevoked"})
    /\ sequence >= Cardinality(DOMAIN capabilities)


(***************************************************************************)
(* More properties of the capability manager                               *)
(***************************************************************************)
\* C30: list_capabilities(owner) returns exactly the capabilities of the
\* table whose owner is the argument and that are not revoked: delegated
\* capabilities of that owner are in it, a capability that a revoke has
\* put in the revocation set (the target or a child swept with it) is not,
\* and neither is a capability of another owner.
C30_ListIsOwnedAndLive ==
    \A owner \in Owners \cup {"nobody"} :
        /\ list_capabilities(owner) =
               {capabilities[id] : id \in {i \in DOMAIN capabilities \ revocations :
                                               capabilities[i].owner = owner}}
        /\ \A c \in list_capabilities(owner) :
               c.owner = owner /\ ~c.revoked /\ c.id \notin revocations
        /\ \A id \in DOMAIN capabilities :
               (capabilities[id].owner = owner /\ id \notin revocations
                   /\ capabilities[id].parent_id # None)
               => capabilities[id] \in list_capabilities(owner)

\* An owner holds a delegated capability that is listed and a revoked one
\* that is not.
C30_Witness ==
    \E live, swept \in DOMAIN capabilities :
        /\ capabilities[live].owner = capabilities[swept].owner
        /\ capabilities[live].parent_id # None
        /\ capabilities[live] \in list_capabilities(capabilities[live].owner)
        /\ capabilities[swept].parent_id # None
        /\ capabilities[swept].revoked
        /\ capabilities[swept] \notin list_capabilities(capabilities[swept].owner)

(***************************************************************************)
(* Properties of execute_restart                                           *)
(***************************************************************************)
\* The step is the part of execute_restart(id, Restart{..}) that follows
\* the sleep: the suspended call of the child is gone.
IsWakeStep(id) == id \in DOMAIN sleeping /\ id \notin DOMAIN sleeping'

\* The step passes the child's pending action to execute_restart.
IsBeginStep(id) == id \in DOMAIN actions /\ id \notin DOMAIN actions'

\* C31: execute_restart with a Restart action invokes the restart callback
\* once, and only after the delay has elapsed since the call began; the
\* child is set to Starting if the callback returned Ok, and is left as it
\* was if the callback failed.  With a Stop or Escalate action the callback
\* is not invoked and nothing of the supervisor changes.
C31_ExecuteRestart ==
    [][\A id \in ChildIds :
          /\ IsWakeStep(id) =>
                /\ instant - sleeping[id].since >= sleeping[id].action.delay
                /\ invoked' # None /\ invoked'[1].id = id
                /\ IF invoked'[1].ok
                   THEN id \in DOMAIN children
                          => children' = [children EXCEPT ![id].state = Starting]
                   ELSE children' = children
          /\ (IsBeginStep(id) /\ actions[id].kind = "Restart") =>
                /\ id \in DOMAIN sleeping'
                /\ sleeping'[id].since = instant
                /\ UNCHANGED <<children, invoked>>
          /\ (IsBeginStep(id) /\ actions[id].kind # "Restart") =>
                UNCHANGED <<children, sleeping, invoked>>
          /\ invoked' # invoked => IsWakeStep(invoked'[1].id)
      ]_vars

\* The callback of a restart has failed and the child is still Restarting.
C31_Witness ==
    /\ invoked # None
    /\ ~invoked[1].ok
    /\ invoked[1].id \in DOMAIN children
    /\ children[invoked[1].id].state.tag = "Restarting"
    /\ invoked[1].id \notin DOMAIN sleeping

(***************************************************************************)
(* Properties of validate and record_usage                                 *)
(***************************************************************************)
\* C32: validate reports the first failure of a fixed order: InvalidToken
\* for a token that does not parse, Revoked for an id in the revocation
\* set, NotFound for an id not in the table, then for the capability found
\* Revoked (its flag), Expired, UsageLimitExceeded, and InsufficientRights
\* last; it returns Ok when none applies.
C32_ValidatePrecedence ==
    \A token \in TokenInputs, required \in RequiredRightSets :
        LET cap_id == capability_id(token)
            kind == ValidateResult(token, required).kind
        IN  IF cap_id = None THEN kind = "InvalidToken"
            ELSE IF cap_id[1] \in revocations THEN kind = "Revoked"
            ELSE IF cap_id[1] \notin DOMAIN capabilities THEN kind = "NotFound"
            ELSE LET cap == capabilities[cap_id[1]]
                     validity == cap.validity
                 IN  kind =
                       IF cap.revoked THEN "Revoked"
                       ELSE IF /\ validity.expires_at # None
                               /\ clock > validity.expires_at[1]
                       THEN "Expired"
                       ELSE IF /\ validity.max_uses # None
                               /\ validity.use_count >= validity.max_uses[1]
                       THEN "UsageLimitExceeded"
                       ELSE IF ~(required \subseteq cap.rights)
                       THEN "InsufficientRights"
                       ELSE "Ok"

\* A revoked capability without the Write right is reported Revoked, and
\* an expired, exhausted one without the Write right is reported Expired.
C32_Witness ==
    \E gone, old \in DOMAIN tokens :
        /\ tokens[gone] \in revocations
        /\ "Write" \notin capabilities[tokens[gone]].rights
        /\ ValidateResult(gone, {"Write"}).kind = "Revoked"
        /\ ~capabilities[tokens[old]].revoked
        /\ "Write" \notin capabilities[tokens[old]].rights
        /\ clock > capabilities[tokens[old]].validity.expires_at[1]
        /\ capabilities[tokens[old]].validity.use_count
              >= capabilities[tokens[old]].validity.max_uses[1]
        /\ ValidateResult(old, {"Write"}).kind = "Expired"

(***************************************************************************)
(* Properties of the intensity window                                      *)
(***************************************************************************)
\* report_crash is called on a child that takes the restart path more than
\* restart_intensity_window seconds after the start of its window.
WindowExpired(id) ==
    /\ IsReportCrash(id)
    /\ actions'[id].kind # "Stop"
    /\ children[id].restart_window_start # None
    /\ instant - children[id].restart_window_start[1] > window_duration(children[id])

\* What report_crash returns for the first crash of a child just registered.
FirstCrashAction(spec) == ReportCrashChild(ChildInfoNew(spec), instant, "error").action

C33_OriginalStep ==
    \A id \in ChildIds :
        WindowExpired(id)
            => /\ children'[id].restart_window_start = Some(instant)
               /\ children'[id].restart_count = 1
               /\ children'[id].escalation_level = Level1RestartWithState
               /\ actions'[id].kind = "Restart"
               /\ actions'[id].escalation = Level1RestartWithState
               /\ actions'[id].delay = FirstCrashAction(children[id].spec).delay

C33_AmendedStep ==
    \A id \in ChildIds :
        WindowExpired(id)
            => LET spec == children[id].spec
                   level == IF spec.max_restarts >= 1
                            THEN Level1RestartWithState
                            ELSE next(Level1RestartWithState)
               IN  /\ children'[id].restart_window_start = Some(instant)
                   /\ children'[id].restart_count = 1
                   /\ children'[id].escalation_level = level
                   /\ children'[id].state = Restarting(1)
                   /\ actions'[id] = FirstCrashAction(spec)
                   /\ actions'[id].kind = "Restart"
                   /\ actions'[id].escalation = level

C34_Step ==
    \A id \in ChildIds :
        (/\ IsReportCrash(id)
         /\ children[id].spec.restart = "Permanent"
         /\ instant <= window_duration(children[id]))
            => LET limit == 3 * children[id].spec.max_restarts IN
               /\ actions'[id].kind = "Restart"
                    => children'[id].total_crashes <= limit
               /\ children'[id].total_crashes > limit
                    => actions'[id].kind = "Escalate"

\* C34: within a single intensity window report_crash returns Restart for a
\* child at most 3 * max_restarts times, and from then on every crash
\* reported in that window returns Escalate, never Restart.
C34_BoundedRestart == [][C34_Step]_vars

(***************************************************************************)
(* Properties of restarts in flight                                        *)
(***************************************************************************)
\* The child has been unregistered, shut down or stopped.
Gone(id) ==
    \/ id \notin DOMAIN children
    \/ children[id].state.tag \in {"Terminated", "Stopped"}

C35_Step ==
    \A id \in ChildIds :
        (IsWakeStep(id) /\ Gone(id)) => UNCHANGED <<invoked, children>>

\* C35: an execute_restart whose child was shut down by shutdown_all,
\* unregistered or stopped while it slept through the delay does not call
\* the restart callback for the child and does not move it out of
\* Terminated or Stopped.
C35_NoResurrection == [][C35_Step]_vars

(***************************************************************************)
(* Properties of shutdown with launches in flight                          *)
(***************************************************************************)
\* C36: once Kernel::shutdown has returned, for any interleaving with the
\* launch_module calls initiated before it, the module registry is empty
\* and no guest task is running.
C36_ShutdownLeavesNothingRunning ==
    (ShutdownCalled /\ shutting_down = 0)
        => /\ registry = EmptyMap
           /\ \A t \in 1..Len(tasks) : tasks[t].status # "Running"

\* C37: for every capability with a usage limit use_count <= max_uses
\* holds in every reachable state: record_usage does not increment the
\* count of a capability that is already exhausted.
C37_UseCountWithinLimit ==
    \A id \in DOMAIN capabilities :
        capabilities[id].validity.max_uses # None
            => capabilities[id].validity.use_count
                   <= capabilities[id].validity.max_uses[1]

(***************************************************************************)
(* Properties of the revocation set                                        *)
(***************************************************************************)
\* C38: the revocation set and the per-capability flag always agree: an id
\* is in the revocation set if and only if the table holds a capability
\* with that id whose revoked flag is set; and revoke of a token whose id
\* is not in the table returns 0.
C38_SetAgreesWithFlag ==
    /\ \A id \in revocations \cup DOMAIN capabilities :
          id \in revocations
              <=> (id \in DOMAIN capabilities /\ capabilities[id].revoked)
    /\ \A token \in DOMAIN tokens :
          tokens[token] \notin DOMAIN capabilities
              => RevokeResult(token).count = 0

(***************************************************************************)
(* Properties of capability ids                                            *)
(***************************************************************************)
\* The step is a create_capability call of the full-width manager.
IsWideCreate == next_id' = AddWide(next_id, OneWide)

C39_Step ==
    IsWideCreate
        => LET id == CapabilityIdNewWide(next_id, clock) IN
           /\ id \notin DOMAIN capabilities
           /\ CapabilityTokenNew(id, Secret) \notin DOMAIN tokens
           /\ \A old \in DOMAIN capabilities :
                 capabilities'[old] = capabilities[old]

\* C39: every id allocated by create or delegate, computed in 64 bits as
\* (timestamp << 32) | (counter & 0xFFFFFFFF), differs from every id
\* allocated before by the same manager: the insert of a new capability
\* never overwrites a table entry nor mints a token that exists already.
C39_IdsNeverRepeat == [][C39_Step]_vars

(***************************************************************************)
(* Properties of the locks                                                 *)
(***************************************************************************)
\* The task holds a guard of the lock.
Holds(t, l) == \E h \in locks[l].held : h[1] = t

\* One order for the locks of each component: entries, sequence, last_hash
\* in the audit log; capabilities before tokens and before revocations in
\* the capability manager.
LockOrder ==
    {<<"audit.entries", "audit.sequence">>, <<"audit.entries", "audit.last_hash">>,
     <<"audit.sequence", "audit.last_hash">>,
     <<"caps.capabilities", "caps.tokens">>,
     <<"caps.capabilities", "caps.revocations">>}

\* A task that asks for a lock while it holds another one asks for a lock
\* that comes later in the order.
LocksTakenInOrder ==
    \A t \in LockTasks : \A l \in LockNames :
        (Holds(t, l) /\ AtStep(t) /\ StepOf(t).kind = "acquire")
            => <<l, StepOf(t).lock>> \in LockOrder

\* C40: no interleaving of concurrent calls on the audit log (append,
\* stats, verify_chain, queries) or on the capability manager (create,
\* validate, record_usage, delegate, revoke, list, stats) deadlocks: the
\* calls take their locks in one consistent order, and every call that has
\* begun eventually returns (no task stays in a call forever).
C40_EveryCallReturns ==
    /\ []LocksTakenInOrder
    /\ \A t \in LockTasks : []<>~InCall(t)

\* revoke holds the table and waits for the revocation set, which a
\* validate call of another task is reading.
C40_Witness ==
    \E t, u \in LockTasks :
        /\ t # u
        /\ calls[t].op = "revoke"
        /\ Holds(t, "caps.capabilities")
        /\ Queued(t, "caps.revocations")
        /\ calls[u].op = "validate"
        /\ Holds(u, "caps.revocations")

====
